---- MODULE Spec2Model ----
(***************************************************************************)
(* Model of the TubeGrab download queue: DownloadQueueManager              *)
(* (backend/app/services/queue.py), the part of YTDLPService.download      *)
(* (backend/app/services/ytdlp.py) that the queue drives, and the queue    *)
(* routes (backend/app/routes/queue.py).                                   *)
(*                                                                         *)
(* Scheduling.  Every coroutine of the manager runs on one asyncio event   *)
(* loop.  asyncio.Lock.acquire does not suspend when the lock is free, and *)
(* no coroutine suspends while it holds _lock (_send_to_subscribers only   *)
(* calls put_nowait), so a handler runs from its start to its return, or   *)
(* to its `await ytdlp_service.download`, as one atomic step.  Of the     *)
(* pipeline body, metadata extraction, the fetch and the audio tagging run *)
(* on executor threads and interleave freely with the event loop; the      *)
(* choice and validation of the output directory and the location of the   *)
(* final file are plain calls inside the coroutine: while they run (their  *)
(* filesystem probes and time.sleep backoffs included) the event loop runs *)
(* nothing else.  Each stage is a step of its own.                         *)
(***************************************************************************)
EXTENDS Integers, Sequences, FiniteSets, TLC

\* Bounds of the model.
MaxItems == 2          \* number of ids the uuid generator hands out
MaxRelay == 1          \* deltas waiting in _progress_queue
MaxSubscribers == 1    \* simultaneous SSE subscribers
MaxPending == 1        \* undelivered events per subscriber

NULL == "null"

ItemIds == 1..MaxItems

\* schemas.py: DownloadStatus
QUEUED == "queued"
DOWNLOADING == "downloading"
PROCESSING == "processing"
COMPLETED == "completed"
FAILED == "failed"
CANCELLED == "cancelled"

DownloadStatus == {QUEUED, DOWNLOADING, PROCESSING, COMPLETED, FAILED, CANCELLED}

\* The `_percent_str` values of the "downloading" hook events: a percentage,
\* and the text yt-dlp gives when it knows no total size.
PercentStrs == {" 50.0%", "  N/A%"}

\* ytdlp.py _parse_progress: float(percent_str.strip().replace("%", "")),
\* 0.0 on ValueError.  Percentages are kept as whole numbers.
parse_progress(percent_str) ==
    CASE percent_str = " 50.0%" -> 50
      [] percent_str = "100%" -> 100
      [] OTHER -> 0

\* Messages of the exceptions YTDLPService.download raises.  MsgCollabNamed
\* is a yt-dlp error that quotes the id of the video it failed on.
MsgCancelled == "Download cancelled"
MsgCollab == "ERROR: unable to download video data"
MsgCollabNamed == "ERROR: [generic] cancelled-show: Unable to download webpage"
MsgMount == "Cannot access output directory"
MsgLocate == "Could not locate downloaded file"

\* What yt-dlp (metadata extraction, fetch) may raise
CollabMsgs == {MsgCollab, MsgCollabNamed}

\* The lower-cased words of a message
LowerWords(msg) ==
    CASE msg = MsgCancelled -> {"download", "cancelled"}
      [] msg = MsgCollab -> {"error", "unable", "to", "download", "video", "data"}
      [] msg = MsgCollabNamed ->
             {"error", "generic", "cancelled", "show", "unable", "to",
              "download", "webpage"}
      [] msg = MsgMount -> {"cannot", "access", "output", "directory"}
      [] msg = MsgLocate -> {"could", "not", "locate", "downloaded", "file"}
      [] OTHER -> {}

\* queue.py:317  `"cancelled" in error_msg.lower()`
IsCancelMsg(msg) == "cancelled" \in LowerWords(msg)

VARIABLES
    queue,          \* _queue: id -> QueueItem
    order,          \* _order: insertion order
    cancelled,      \* _cancelled: cancellation-flag set
    running,        \* _running (the worker and the consumer task exist)
    subscribers,    \* _subscribers: one event queue per subscriber
    progress_queue, \* _progress_queue: the relay of (item_id, data)
    pc,             \* position of the worker's current pipeline run
    cur,            \* item_id of the run (0: no run)
    exc,            \* message of the exception the run raised
    issued,         \* number of ids generated so far (uuid4)
    last,           \* the last call and what it returned
    removedIds,     \* history: ids deleted by remove / clear_completed
    runCancelled,   \* history: a cancel was accepted for the running item
    nfs,            \* a call of _retry_nfs_operation: its arguments and locals
    tc,             \* a call of _convert_video: its locals and the ffmpeg runs
    sse,            \* the subscriber queues, with what each was sent and got
    fn,             \* a call of a naming helper: its arguments and its result
    rl,             \* the progress relay, with the deltas numbered as pushed
    mc,             \* the mount-status cache, the clock and the last query
    lk              \* the two locks and the calls that take them

\* The variables of the queue manager and of the run it drives
queueVars == <<queue, order, cancelled, running, subscribers,
               progress_queue, pc, cur, exc, issued, last, removedIds,
               runCancelled>>

vars == <<queue, order, cancelled, running, subscribers,
          progress_queue, pc, cur, exc, issued, last, removedIds, runCancelled,
          nfs, tc, sse, fn, rl, mc, lk>>

\* schemas.py: QueueItem defaults.  The request's fields (url, title, format)
\* and the display strings speed and eta take no part in any decision of the
\* queue and are left out.
NewItem(id, request) ==
    [id |-> id, is_audio_only |-> request.is_audio_only, status |-> QUEUED,
     progress |-> 0, error |-> NULL, completed_at |-> NULL, file_path |-> NULL]

\* The request bodies POST /api/download accepts.  schemas.py
\* DownloadRequest declares no send_to_plex field, so the sendToLibrary
\* flag of a body is dropped when the body is parsed.
Requests == [is_audio_only : {TRUE}, send_to_library : {TRUE}]

\* ytdlp.py download: `send_to_plex: bool = False`; _download_item passes
\* no send_to_plex, so every queued run uses the default.
send_to_plex_default == FALSE

\* ytdlp.py download: the path it returns for a video whose artist, album
\* and title resolve to Artist, Album and Title, in an empty album folder
\* (_get_output_dir, _get_track_number, the Plex rename, str(final_file)).
download_path(is_audio_only, send_to_plex) ==
    IF send_to_plex /\ is_audio_only
    THEN "/plex/music/Artist/Album/01 - Title.mp3"
    ELSE IF send_to_plex
         THEN "/plex/movies/Title.mp4"
         ELSE IF is_audio_only
              THEN "/downloads/Title.mp3"
              ELSE "/downloads/Title.mp4"

\* The event loop is free to run another coroutine: the worker's coroutine
\* is not inside one of the synchronous parts of YTDLPService.download
\* (output directory and its validation; location of the final file), nor
\* on its way from an exception of those parts to _download_item's except.
LoopFree ==
    /\ pc \notin {"place", "post"}
    /\ ~(pc = "raised" /\ exc \in {MsgMount, MsgLocate})

Call(op, id, ret, count) == [op |-> op, id |-> id, ret |-> ret, count |-> count]

Step == Call("step", 0, FALSE, 0)

----------------------------------------------------------------------------
\* Broadcasting

\* _send_to_subscribers: put_nowait on every subscriber queue.  The queues
\* are asyncio.Queue() with no maxsize, so QueueFull is never raised.
send_to_subscribers(data) ==
    [i \in DOMAIN subscribers |-> Append(subscribers[i], data)]

\* _broadcast_update
broadcast_update(item, removed) ==
    send_to_subscribers([type |-> "item_update", item |-> item, removed |-> removed])

\* Room for one more event in every subscriber queue (bound of the model).
CanEmit == \A i \in DOMAIN subscribers : Len(subscribers[i]) < MaxPending

RECURSIVE SelectSeq2(_, _)
SelectSeq2(ids, q) ==
    IF ids = <<>> THEN <<>>
    ELSE IF Head(ids) \in DOMAIN q
         THEN <<q[Head(ids)]>> \o SelectSeq2(Tail(ids), q)
         ELSE SelectSeq2(Tail(ids), q)

CountStatus(items, st) == Cardinality({i \in DOMAIN items : items[i].status = st})

\* get_queue, on the given map and order
get_queue_of(q, ord) ==
    LET items == SelectSeq2(ord, q)
    IN [items |-> items,
        active_downloads |-> CountStatus(items, DOWNLOADING),
        completed_count |-> CountStatus(items, COMPLETED),
        failed_count |-> CountStatus(items, FAILED)]

get_queue == get_queue_of(queue, order)

\* Removal of the first occurrence (list.remove)
RECURSIVE ListRemove(_, _)
ListRemove(ids, x) ==
    IF ids = <<>> THEN <<>>
    ELSE IF Head(ids) = x THEN Tail(ids)
         ELSE <<Head(ids)>> \o ListRemove(Tail(ids), x)

DictDel(q, ids) == [k \in DOMAIN q \ ids |-> q[k]]

----------------------------------------------------------------------------
\* The mount layer: _retry_nfs_operation

MaxRetriesArg == 4     \* largest max_retries a caller passes

\* What one invocation of the operation does: it returns, or raises one of
\* these errors.
OpOk == "ok"
ErrStale116 == "OSError(116, 'Stale file handle')"
ErrDenied == "OSError(13, 'Permission denied')"
ErrStaleText == "Exception('[Errno 116] Stale file handle')"
ErrOther == "ValueError('bad value')"

OpErrors == {ErrStale116, ErrDenied, ErrStaleText, ErrOther}

\* isinstance(e, OSError): the first except clause takes the error
is_os_error(e) == e \in {ErrStale116, ErrDenied}

\* e.errno
errno_of(e) ==
    CASE e = ErrStale116 -> 116
      [] e = ErrDenied -> 13
      [] OTHER -> 0

\* "stale file handle" in str(e).lower() or "errno 116" in str(e).lower()
mentions_stale(e) == e \in {ErrStale116, ErrStaleText}

\* Variant of stale_handle: every error counts as a stale handle
stale_handle_any(e) == TRUE

\* The test that decides whether _retry_nfs_operation may retry after e
stale_handle(e) == IF is_os_error(e) THEN errno_of(e) = 116 ELSE mentions_stale(e)

\* Variant of may_retry: the last but one attempt is final too
may_retry_short(attempt, max_retries) == attempt < max_retries - 2

\* `if attempt < max_retries - 1`
may_retry(attempt, max_retries) == attempt < max_retries - 1

\* time.sleep(0.1) after the refresh and the step of wait_time, in tenths of
\* a second
SettleDelay == 1
BackoffStep == 5

\* `wait_time = (attempt + 1) * 0.5`
wait_time(attempt) == (attempt + 1) * BackoffStep

\* What the operation does at each of its invocations
OpScripts == [1..MaxRetriesArg -> {OpOk} \cup OpErrors]

\* No call of _retry_nfs_operation has been made
NoRetryCall ==
    [phase |-> "idle", max_retries |-> 0, has_path |-> FALSE, script |-> <<>>,
     attempt |-> 0, calls |-> 0, refreshes |-> 0, settles |-> 0,
     waits |-> <<>>, result |-> NULL]

----------------------------------------------------------------------------
\* The transcode engine: _convert_video

\* The stderr of a failed ffmpeg run
ErrLibrary == "Cannot load libnvidia-encode.so.1"
ErrDriver == "Driver does not support the required nvenc API version"
ErrNvenc == "[h264_nvenc] Error while opening encoder"
ErrInput == "Invalid data found when processing input"

StderrTexts == {ErrLibrary, ErrDriver, ErrNvenc, ErrInput}

\* The words of stderr_output.lower()
StderrWords(text) ==
    CASE text = ErrLibrary -> {"cannot", "load", "libnvidia-encode"}
      [] text = ErrDriver ->
             {"driver", "does", "not", "support", "the", "required", "nvenc",
              "api", "version"}
      [] text = ErrNvenc -> {"nvenc", "error", "while", "opening", "encoder"}
      [] text = ErrInput ->
             {"invalid", "data", "found", "when", "processing", "input"}
      [] OTHER -> {}

\* ytdlp.py 1002-1006: the stderr tells of a driver or library failure
driver_issue(text) ==
    LET w == StderrWords(text)
    IN \/ "libnvidia-encode" \in w
       \/ "driver" \in w
       \/ ("nvenc" \in w /\ ("cannot" \in w \/ "error" \in w))

\* Variant of gpu_fallback: the encoder that failed is not looked at
gpu_fallback_any_encoder(try_gpu, text) == driver_issue(text)

\* `if try_gpu and (...)`: the next iteration retries with the CPU encoder
gpu_fallback(try_gpu, text) == try_gpu /\ driver_issue(text)

\* Percentages _parse_ffmpeg_progress yields for the progress lines
FfmpegPercents == {25, 75}

\* The file the fetch left and the file _convert_video returns
OriginalFile == "/downloads/Title.webm"
ConvertedFile == "/downloads/Title.mp4"

\* ytdlp.py 667-678: conversion progress mapped into 95..99
mapped_progress(progress) == 95 + (progress * 4) \div 100

\* No call of _convert_video has been made
NoConversion ==
    [phase |-> "idle", use_hw_accel |-> FALSE, attempt |-> 0, tries |-> <<>>,
     last_progress |-> 0, error |-> NULL, pushed |-> <<>>, path |-> NULL]

----------------------------------------------------------------------------
\* The fan-out: subscribe, unsubscribe, _send_to_subscribers, event_generator

MaxSubscriptions == 3  \* subscriptions made in all
MaxEvents == 3         \* events emitted in all

\* No subscriber yet.  subs is _subscribers, each queue with the identity
\* of its subscriber; seen[sid] is what was emitted while sid was
\* subscribed and got[sid] what its event_generator has yielded.
NoSubscribers ==
    [subs |-> <<>>, emitted |-> 0, seen |-> <<>>, got |-> <<>>]

----------------------------------------------------------------------------
\* Naming helpers of YTDLPService.  A string is a sequence of characters.

MaxNameLen == 3        \* longest name handed to _sanitize_filename

\* A letter, the space, the tab, the dot and one of the invalid characters
NameChars == {"a", " ", "\t", ".", "<"}

\* invalid_chars = '<>:"/\|?*'
InvalidChars == {"<", ">", ":", "\"", "/", "\\", "|", "?", "*"}

\* What the regular expression \s matches
Whitespace == {" ", "\t", "\n", "\r"}

\* The strings over NameChars of length n
RECURSIVE NamesOfLen(_)
NamesOfLen(n) ==
    IF n = 0 THEN {<<>>}
    ELSE {<<c>> \o x : c \in NameChars, x \in NamesOfLen(n - 1)}

Names == UNION {NamesOfLen(n) : n \in 0..MaxNameLen}

\* name.replace(char, '') for every char of invalid_chars
remove_invalid(name) == SelectSeq(name, LAMBDA c : c \notin InvalidChars)

RECURSIVE lstrip(_, _)
lstrip(name, chars) ==
    IF name # <<>> /\ Head(name) \in chars THEN lstrip(Tail(name), chars)
    ELSE name

RECURSIVE rstrip(_, _)
rstrip(name, chars) ==
    IF name # <<>> /\ name[Len(name)] \in chars
    THEN rstrip(SubSeq(name, 1, Len(name) - 1), chars)
    ELSE name

\* str.strip(chars)
strip(name, chars) == rstrip(lstrip(name, chars), chars)

\* re.sub(r'\s+', ' ', name)
RECURSIVE collapse_whitespace(_)
collapse_whitespace(name) ==
    IF name = <<>> THEN <<>>
    ELSE IF Head(name) \in Whitespace
         THEN <<" ">> \o collapse_whitespace(lstrip(name, Whitespace))
         ELSE <<Head(name)>> \o collapse_whitespace(Tail(name))

\* _sanitize_filename
sanitize_filename(name) ==
    collapse_whitespace(strip(remove_invalid(name), {" ", "."}))

\* A file of an album directory: the digits its stem begins with, what
\* follows them, and its suffix.
File(digits, sep, ext) == [digits |-> digits, sep |-> sep, ext |-> ext]

\* "01 - A.mp3", "03 - B.mp3", "99 - C.flac", "100 - D.mp3", "05-E.mp3",
\* "7 - F.mp3", "1234 - G.mp3", "Intro.mp3", "08 - notes.txt", "20 H.mp3"
AlbumFiles ==
    {File(<<0, 1>>, " - ", ".mp3"), File(<<0, 3>>, " - ", ".mp3"),
     File(<<9, 9>>, " - ", ".flac"), File(<<1, 0, 0>>, " - ", ".mp3"),
     File(<<0, 5>>, "-", ".mp3"), File(<<7>>, " - ", ".mp3"),
     File(<<1, 2, 3, 4>>, " - ", ".mp3"), File(<<>>, "", ".mp3"),
     File(<<0, 8>>, " - ", ".txt"), File(<<2, 0>>, " ", ".mp3")}

\* The album directory as _get_track_number finds it
AlbumDirs ==
    [state : {"missing", "unreadable"}, files : {{}}]
        \cup [state : {"listed"}, files : SUBSET AlbumFiles]

\* The suffixes _get_track_number globs for
AudioExts == {".mp3", ".m4a", ".flac", ".ogg", ".wav"}

\* int(match.group(1))
RECURSIVE int_of(_)
int_of(digits) ==
    IF digits = <<>> THEN 0
    ELSE 10 * int_of(SubSeq(digits, 1, Len(digits) - 1)) + digits[Len(digits)]

\* re.match(r"^(\d{2,3})\s*-\s*", file.stem)
track_prefix_matches(file) ==
    /\ Len(file.digits) \in {2, 3}
    /\ file.sep \in {" - ", "-", " -", "- "}

\* The decimal digits of n
RECURSIVE decimal(_)
decimal(n) == IF n < 10 THEN <<n>> ELSE decimal(n \div 10) \o <<n % 10>>

\* f"{next_track:02d}"
format_02d(n) == IF n < 10 THEN <<0, n>> ELSE decimal(n)

SetMax(S) == CHOOSE x \in S : \A y \in S : y <= x

\* Variant of get_track_number: the files are counted
get_track_number_count(dir) ==
    IF dir.state # "listed" THEN format_02d(1)
    ELSE LET audio_files == {f \in dir.files : f.ext \in AudioExts}
             track_numbers == {int_of(f.digits) :
                                  f \in {g \in audio_files : track_prefix_matches(g)}}
         IN format_02d(Cardinality(track_numbers) + 1)

\* _get_track_number
get_track_number(dir) ==
    IF dir.state # "listed" THEN format_02d(1)
    ELSE LET audio_files == {f \in dir.files : f.ext \in AudioExts}
             track_numbers == {int_of(f.digits) :
                                  f \in {g \in audio_files : track_prefix_matches(g)}}
         IN IF track_numbers # {}
            THEN format_02d(SetMax(track_numbers) + 1)
            ELSE format_02d(1)

MaxTitleLen == 5

\* The characters of a title; "(V)" stands for the word "(Official Video)"
\* and "(A)" for "(Official Audio)"
TitleChars == {"a", " ", "-", ":", "(V)", "(A)"}

RECURSIVE TitlesOfLen(_)
TitlesOfLen(n) ==
    IF n = 0 THEN {<<>>}
    ELSE {<<c>> \o x : c \in TitleChars, x \in TitlesOfLen(n - 1)}

Titles == UNION {TitlesOfLen(n) : n \in 0..MaxTitleLen}

\* The metadata the extraction returns, as far as the inference reads it
VideoInfos ==
    [title : Titles, uploader : {<<>>, <<"U">>}, channel : {<<>>, <<"C">>},
     uploader_id : {<<>>, <<"I">>}]

\* The suffixes the inference cleans off a title, in the order of the loop
OfficialSuffixes == << <<" ", "(V)">>, <<" ", "(A)">> >>

\* clean_title.endswith(suffix)
endswith(text, suffix) ==
    /\ Len(text) >= Len(suffix)
    /\ SubSeq(text, Len(text) - Len(suffix) + 1, Len(text)) = suffix

\* The loop over the suffixes: each is cut off when the title ends with it
RECURSIVE clean_suffixes(_, _)
clean_suffixes(text, k) ==
    IF k > Len(OfficialSuffixes) THEN text
    ELSE clean_suffixes(
             IF endswith(text, OfficialSuffixes[k])
             THEN SubSeq(text, 1, Len(text) - Len(OfficialSuffixes[k]))
             ELSE text,
             k + 1)

\* The positions where sep occurs in text
occurrences(text, sep) ==
    {i \in 1..(Len(text) - Len(sep) + 1) : SubSeq(text, i, i + Len(sep) - 1) = sep}

\* sep in text
contains(text, sep) == occurrences(text, sep) # {}

\* text.count(sep), for a separator that cannot overlap itself
count_of(text, sep) == Cardinality(occurrences(text, sep))

\* text.split(sep, 1) for a text that contains sep
split_once(text, sep) ==
    LET i == CHOOSE j \in occurrences(text, sep) :
                 \A k \in occurrences(text, sep) : j <= k
    IN <<SubSeq(text, 1, i - 1), SubSeq(text, i + Len(sep), Len(text))>>

DashSep == <<" ", "-", " ">>
ColonSep == <<":", " ">>

\* uploader or channel or uploader_id or "Unknown Artist"
default_artist(info) ==
    LET uploader == IF info.uploader # <<>> THEN info.uploader ELSE info.channel
    IN IF uploader # <<>> THEN uploader
       ELSE IF info.channel # <<>> THEN info.channel
       ELSE IF info.uploader_id # <<>> THEN info.uploader_id
       ELSE <<"Unknown Artist">>

\* download, for an audio item: the artist and the title it derives from
\* the metadata
infer_artist_title(info) ==
    LET clean_title == clean_suffixes(info.title, 1)
    IN IF contains(clean_title, DashSep)
       THEN LET parts == split_once(clean_title, DashSep)
            IN [artist |-> strip(parts[1], Whitespace),
                title |-> strip(parts[2], Whitespace)]
       ELSE IF contains(clean_title, ColonSep) /\ count_of(clean_title, ColonSep) = 1
       THEN LET parts == split_once(clean_title, ColonSep)
            IN [artist |-> strip(parts[1], Whitespace),
                title |-> strip(parts[2], Whitespace)]
       ELSE [artist |-> default_artist(info), title |-> clean_title]

MaxDeltas == 3  \* deltas pushed in all

\* The relay after construction.  present is the key set of _queue and
\* progress, status the fields of its items; relay is _progress_queue, each
\* entry with the number of its push; log is every (item_id, data) pushed,
\* applied the numbers of the deltas written to their item, in the order of
\* the writes, and dropped the numbers of those whose item was gone.
NoRelay ==
    [running |-> FALSE, issued |-> 0, present |-> {},
     progress |-> [id \in ItemIds |-> 0],
     status |-> [id \in ItemIds |-> QUEUED],
     relay |-> <<>>, log |-> <<>>, applied |-> <<>>, dropped |-> {}]

MaxTicks == 3  \* advances of the clock in all

\* `self._mount_cache_ttl = 30.0`, in seconds
mount_cache_ttl == 30

\* The seconds by which time.time() is seen to advance between two calls
ClockSteps == {10, 20}

\* plex_movies_dir and plex_music_dir
Mounts == {"movies", "music"}

\* The service after construction: _mount_status_cache is empty.  now is
\* time.time(); last is the last get_plex_status call: its argument, the
\* age of each entry it looked up (-1: no entry), whether it probed the
\* mounts, and what it returned.
NoMountCache ==
    [now |-> 0, ticks |-> 0, cache |-> [m \in {} |-> NULL], queries |-> 0,
     last |-> [use_cache |-> FALSE, ages |-> [m \in Mounts |-> -1],
               probed |-> FALSE, result |-> [m \in Mounts |-> FALSE]]]

\* Variant of get_cached_mount_status: an entry is served up to the age of
\* the TTL, that age included
get_cached_mount_status_inclusive(cache, mount_path, now) ==
    IF mount_path \in DOMAIN cache
    THEN LET age == now - cache[mount_path].timestamp
         IN IF age <= mount_cache_ttl
            THEN [ret |-> IF cache[mount_path].status THEN "True" ELSE "False",
                  cache |-> cache]
            ELSE [ret |-> "None",
                  cache |-> [m \in DOMAIN cache \ {mount_path} |-> cache[m]]]
    ELSE [ret |-> "None", cache |-> cache]

\* _get_cached_mount_status: what it returns and the cache it leaves
get_cached_mount_status(cache, mount_path, now) ==
    IF mount_path \in DOMAIN cache
    THEN LET age == now - cache[mount_path].timestamp
         IN IF age < mount_cache_ttl
            THEN [ret |-> IF cache[mount_path].status THEN "True" ELSE "False",
                  cache |-> cache]
            ELSE [ret |-> "None",
                  cache |-> [m \in DOMAIN cache \ {mount_path} |-> cache[m]]]
    ELSE [ret |-> "None", cache |-> cache]

\* _set_cached_mount_status: the cache it leaves
set_cached_mount_status(cache, mount_path, is_available, now) ==
    [m \in DOMAIN cache \cup {mount_path} |->
        IF m = mount_path THEN [status |-> is_available, timestamp |-> now]
        ELSE cache[m]]

MaxLoopTasks == 2  \* coroutines of the queue manager alive at a time
MaxLockCalls == 3  \* calls made in all

\* The coroutines on the event loop, and the worker-pool thread that polls
\* the cancellation flag
LoopTasks == 1..MaxLoopTasks
PollThread == 0
LockTasks == LoopTasks \cup {PollThread}

\* The calls of the queue manager that run on the event loop: the handlers,
\* the consumer's _apply_progress_update, and the start and the end of
\* _download_item
LoopOps == {"add", "list", "remove", "cancel", "retry", "clear", "apply",
            "run_start", "run_end"}

\* _download_item.cancel_check, called by the progress hook
ThreadOps == {"poll"}

\* Variant of LockProgram: clear_completed broadcasts the full update
\* before it leaves `async with self._lock`
LockProgram_nested_broadcast(op) ==
    CASE op \in {"add", "list", "apply"} -> <<"acq_m", "rel_m">>
      [] op \in {"remove", "cancel", "retry", "run_end"} ->
            <<"acq_m", "acq_t", "rel_t", "rel_m">>
      [] op = "clear" -> <<"acq_m", "acq_m", "rel_m", "rel_m">>
      [] op = "run_start" -> <<"acq_t", "rel_t", "acq_m", "rel_m">>
      [] op = "poll" -> <<"acq_t", "rel_t">>

\* What a call does to _lock (m) and _thread_lock (t), in program order.
\* remove, cancel, retry and the end of a run take _thread_lock inside
\* _lock; clear_completed leaves _lock and then _broadcast_full_update
\* takes it again in get_queue; _download_item first tests the flag under
\* _thread_lock alone and then marks the item under _lock.
LockProgram(op) ==
    CASE op \in {"add", "list", "apply"} -> <<"acq_m", "rel_m">>
      [] op \in {"remove", "cancel", "retry", "run_end"} ->
            <<"acq_m", "acq_t", "rel_t", "rel_m">>
      [] op = "clear" -> <<"acq_m", "rel_m", "acq_m", "rel_m">>
      [] op = "run_start" -> <<"acq_t", "rel_t", "acq_m", "rel_m">>
      [] op = "poll" -> <<"acq_t", "rel_t">>

\* Both locks free and no call under way.  m and t are the holders of _lock
\* and _thread_lock (-1: free), op and ip the call of each task and its
\* position in it, current the coroutine the event loop is running.
NoLocks ==
    [m |-> -1, t |-> -1, op |-> [task \in LockTasks |-> "none"],
     ip |-> [task \in LockTasks |-> 0], current |-> -1, calls |-> 0]

\* No helper has been called
NoCall == [op |-> "none", arg |-> <<>>, out |-> <<>>]

----------------------------------------------------------------------------
Init ==
    /\ queue = [k \in {} |-> NULL]
    /\ order = <<>>
    /\ cancelled = {}
    /\ running = FALSE
    /\ subscribers = <<>>
    /\ progress_queue = <<>>
    /\ pc = "idle"
    /\ cur = 0
    /\ exc = NULL
    /\ issued = 0
    /\ last = Call("init", 0, FALSE, 0)
    /\ removedIds = {}
    /\ runCancelled = FALSE
    /\ nfs = NoRetryCall
    /\ tc = NoConversion
    /\ sse = NoSubscribers
    /\ fn = NoCall
    /\ rl = NoRelay
    /\ mc = NoMountCache
    /\ lk = NoLocks

\* start_worker (main.py lifespan startup)
start_worker ==
    /\ ~running
    /\ running' = TRUE
    /\ last' = Call("start_worker", 0, TRUE, 0)
    /\ UNCHANGED <<queue, order, cancelled, subscribers, progress_queue, pc, cur,
                   exc, issued, removedIds, runCancelled>>
    /\ UNCHANGED <<nfs, tc, sse, fn, rl, mc, lk>>

\* Variant of add_to_queue: the new id is put at the head of _order
add_to_queue_front(request) ==
    /\ running
    /\ LoopFree
    /\ issued < MaxItems
    /\ CanEmit
    /\ LET id == issued + 1
           item == NewItem(id, request)
       IN /\ queue' = (id :> item) @@ queue
          /\ order' = <<id>> \o order
          /\ subscribers' = broadcast_update(item, FALSE)
          /\ issued' = id
          /\ last' = Call("enqueue", id, TRUE, 0)
    /\ UNCHANGED <<cancelled, running, progress_queue, pc, cur, exc,
                   removedIds, runCancelled>>
    /\ UNCHANGED <<nfs, tc, sse, fn, rl, mc, lk>>

\* add_to_queue
add_to_queue(request) ==
    /\ running
    /\ LoopFree
    /\ issued < MaxItems
    /\ CanEmit
    /\ LET id == issued + 1
           item == NewItem(id, request)
       IN /\ queue' = (id :> item) @@ queue
          /\ order' = Append(order, id)
          /\ subscribers' = broadcast_update(item, FALSE)
          /\ issued' = id
          /\ last' = Call("enqueue", id, TRUE, 0)
    /\ UNCHANGED <<cancelled, running, progress_queue, pc, cur, exc,
                   removedIds, runCancelled>>
    /\ UNCHANGED <<nfs, tc, sse, fn, rl, mc, lk>>

\* Variant of remove_from_queue: a downloading item is deleted without
\* being flagged
remove_from_queue_no_flag(item_id) ==
    /\ running
    /\ LoopFree
    /\ IF item_id \in DOMAIN queue
       THEN /\ CanEmit
            /\ queue' = DictDel(queue, {item_id})
            /\ order' = ListRemove(order, item_id)
            /\ subscribers' = broadcast_update(queue[item_id], TRUE)
            /\ removedIds' = removedIds \cup {item_id}
            /\ last' = Call("remove", item_id, TRUE, 0)
            /\ UNCHANGED cancelled
       ELSE /\ last' = Call("remove", item_id, FALSE, 0)
            /\ UNCHANGED <<queue, order, cancelled, subscribers, removedIds>>
    /\ UNCHANGED <<running, progress_queue, pc, cur, exc, issued, runCancelled>>
    /\ UNCHANGED <<nfs, tc, sse, fn, rl, mc, lk>>

\* remove_from_queue
remove_from_queue(item_id) ==
    /\ running
    /\ LoopFree
    /\ IF item_id \in DOMAIN queue
       THEN LET wasDownloading == queue[item_id].status = DOWNLOADING
                item == IF wasDownloading
                        THEN [queue[item_id] EXCEPT !.status = CANCELLED]
                        ELSE queue[item_id]
            IN /\ CanEmit
               /\ cancelled' = IF wasDownloading THEN cancelled \cup {item_id}
                               ELSE cancelled
               /\ queue' = DictDel(queue, {item_id})
               /\ order' = ListRemove(order, item_id)
               /\ subscribers' = broadcast_update(item, TRUE)
               /\ removedIds' = removedIds \cup {item_id}
               /\ last' = Call("remove", item_id, TRUE, 0)
       ELSE /\ last' = Call("remove", item_id, FALSE, 0)
            /\ UNCHANGED <<queue, order, cancelled, subscribers, removedIds>>
    /\ UNCHANGED <<running, progress_queue, pc, cur, exc, issued,
                   runCancelled>>
    /\ UNCHANGED <<nfs, tc, sse, fn, rl, mc, lk>>

\* Variant of cancel_download: a processing item is accepted too
cancel_download_processing(item_id) ==
    /\ running
    /\ LoopFree
    /\ IF /\ item_id \in DOMAIN queue
          /\ queue[item_id].status \in {QUEUED, DOWNLOADING, PROCESSING}
       THEN LET item == [queue[item_id] EXCEPT !.status = CANCELLED]
            IN /\ CanEmit
               /\ cancelled' = cancelled \cup {item_id}
               /\ queue' = [queue EXCEPT ![item_id] = item]
               /\ subscribers' = broadcast_update(item, FALSE)
               /\ runCancelled' = (runCancelled \/
                                   (item_id = cur /\ queue[item_id].status = DOWNLOADING))
               /\ last' = Call("cancel", item_id, TRUE, 0)
       ELSE /\ last' = Call("cancel", item_id, FALSE, 0)
            /\ UNCHANGED <<queue, cancelled, subscribers, runCancelled>>
    /\ UNCHANGED <<order, running, progress_queue, pc, cur, exc, issued,
                   removedIds>>
    /\ UNCHANGED <<nfs, tc, sse, fn, rl, mc, lk>>

\* cancel_download
cancel_download(item_id) ==
    /\ running
    /\ LoopFree
    /\ IF /\ item_id \in DOMAIN queue
          /\ queue[item_id].status \in {QUEUED, DOWNLOADING}
       THEN LET item == [queue[item_id] EXCEPT !.status = CANCELLED]
            IN /\ CanEmit
               /\ cancelled' = cancelled \cup {item_id}
               /\ queue' = [queue EXCEPT ![item_id] = item]
               /\ subscribers' = broadcast_update(item, FALSE)
               /\ runCancelled' = (runCancelled \/
                                   (item_id = cur /\ queue[item_id].status = DOWNLOADING))
               /\ last' = Call("cancel", item_id, TRUE, 0)
       ELSE /\ last' = Call("cancel", item_id, FALSE, 0)
            /\ UNCHANGED <<queue, cancelled, subscribers, runCancelled>>
    /\ UNCHANGED <<order, running, progress_queue, pc, cur, exc, issued,
                   removedIds>>
    /\ UNCHANGED <<nfs, tc, sse, fn, rl, mc, lk>>

\* Variant of retry_download: the cancellation flag is left in place
retry_download_keeps_flag(item_id) ==
    /\ running
    /\ LoopFree
    /\ IF /\ item_id \in DOMAIN queue
          /\ queue[item_id].status \in {FAILED, CANCELLED}
       THEN LET item == [queue[item_id] EXCEPT !.status = QUEUED,
                                               !.progress = 0,
                                               !.error = NULL]
            IN /\ CanEmit
               /\ queue' = [queue EXCEPT ![item_id] = item]
               /\ subscribers' = broadcast_update(item, FALSE)
               /\ last' = Call("retry", item_id, TRUE, 0)
               /\ UNCHANGED cancelled
       ELSE /\ last' = Call("retry", item_id, FALSE, 0)
            /\ UNCHANGED <<queue, cancelled, subscribers>>
    /\ UNCHANGED <<order, running, progress_queue, pc, cur, exc, issued,
                   removedIds, runCancelled>>
    /\ UNCHANGED <<nfs, tc, sse, fn, rl, mc, lk>>

\* retry_download
retry_download(item_id) ==
    /\ running
    /\ LoopFree
    /\ IF /\ item_id \in DOMAIN queue
          /\ queue[item_id].status \in {FAILED, CANCELLED}
       THEN LET item == [queue[item_id] EXCEPT !.status = QUEUED,
                                               !.progress = 0,
                                               !.error = NULL]
            IN /\ CanEmit
               /\ queue' = [queue EXCEPT ![item_id] = item]
               /\ cancelled' = cancelled \ {item_id}
               /\ subscribers' = broadcast_update(item, FALSE)
               /\ last' = Call("retry", item_id, TRUE, 0)
       ELSE /\ last' = Call("retry", item_id, FALSE, 0)
            /\ UNCHANGED <<queue, cancelled, subscribers>>
    /\ UNCHANGED <<order, running, progress_queue, pc, cur, exc, issued,
                   removedIds, runCancelled>>
    /\ UNCHANGED <<nfs, tc, sse, fn, rl, mc, lk>>

\* Variant of clear_completed: every terminal item is cleared
clear_completed_terminal ==
    /\ running
    /\ LoopFree
    /\ LET to_remove == {id \in DOMAIN queue :
                            queue[id].status \in {COMPLETED, FAILED, CANCELLED}}
           count == Cardinality(to_remove)
           q2 == DictDel(queue, to_remove)
           ord2 == SelectSeq(order, LAMBDA id : id \notin to_remove)
       IN /\ queue' = q2
          /\ order' = ord2
          /\ removedIds' = removedIds \cup to_remove
          /\ IF count > 0
             THEN /\ CanEmit
                  /\ subscribers' = send_to_subscribers(
                        [type |-> "full_update", queue |-> get_queue_of(q2, ord2)])
             ELSE UNCHANGED subscribers
          /\ last' = Call("clear_completed", 0, TRUE, count)
    /\ UNCHANGED <<cancelled, running, progress_queue, pc, cur, exc,
                   issued, runCancelled>>
    /\ UNCHANGED <<nfs, tc, sse, fn, rl, mc, lk>>

\* clear_completed
clear_completed ==
    /\ running
    /\ LoopFree
    /\ LET to_remove == {id \in DOMAIN queue : queue[id].status = COMPLETED}
           count == Cardinality(to_remove)
           q2 == DictDel(queue, to_remove)
           ord2 == SelectSeq(order, LAMBDA id : id \notin to_remove)
       IN /\ queue' = q2
          /\ order' = ord2
          /\ removedIds' = removedIds \cup to_remove
          /\ IF count > 0
             THEN /\ CanEmit
                  /\ subscribers' = send_to_subscribers(
                        [type |-> "full_update", queue |-> get_queue_of(q2, ord2)])
             ELSE UNCHANGED subscribers
          /\ last' = Call("clear_completed", 0, TRUE, count)
    /\ UNCHANGED <<cancelled, running, progress_queue, pc, cur, exc,
                   issued, runCancelled>>
    /\ UNCHANGED <<nfs, tc, sse, fn, rl, mc, lk>>

\* routes/queue.py cancel_all: the route calls queue_manager.cancel_all(),
\* which DownloadQueueManager does not define; the call raises
\* AttributeError and the request fails without touching the queue.
cancel_all ==
    /\ running
    /\ LoopFree
    /\ last' = Call("cancel_all", 0, FALSE, 0)
    /\ UNCHANGED <<queue, order, cancelled, running, subscribers,
                   progress_queue, pc, cur, exc, issued, removedIds, runCancelled>>
    /\ UNCHANGED <<nfs, tc, sse, fn, rl, mc, lk>>

\* subscribe (routes/queue.py event_generator start)
subscribe ==
    /\ running
    /\ LoopFree
    /\ Len(subscribers) < MaxSubscribers
    /\ subscribers' = Append(subscribers, <<>>)
    /\ last' = Call("subscribe", 0, TRUE, 0)
    /\ UNCHANGED <<queue, order, cancelled, running, progress_queue,
                   pc, cur, exc, issued, removedIds, runCancelled>>
    /\ UNCHANGED <<nfs, tc, sse, fn, rl, mc, lk>>

\* unsubscribe (event_generator's finally)
unsubscribe(i) ==
    /\ LoopFree
    /\ i \in DOMAIN subscribers
    /\ subscribers' = [k \in 1..(Len(subscribers) - 1) |->
                          IF k < i THEN subscribers[k] ELSE subscribers[k + 1]]
    /\ last' = Call("unsubscribe", 0, TRUE, 0)
    /\ UNCHANGED <<queue, order, cancelled, running, progress_queue,
                   pc, cur, exc, issued, removedIds, runCancelled>>
    /\ UNCHANGED <<nfs, tc, sse, fn, rl, mc, lk>>

\* event_generator: subscriber_queue.get() takes the oldest event
deliver(i) ==
    /\ LoopFree
    /\ i \in DOMAIN subscribers
    /\ subscribers[i] # <<>>
    /\ subscribers' = [subscribers EXCEPT ![i] = Tail(@)]
    /\ last' = Step
    /\ UNCHANGED <<queue, order, cancelled, running, progress_queue,
                   pc, cur, exc, issued, removedIds, runCancelled>>
    /\ UNCHANGED <<nfs, tc, sse, fn, rl, mc, lk>>

----------------------------------------------------------------------------
\* The worker loop and the pipeline run

\* Variant of next_item: the scan keeps the last QUEUED item of _order
RECURSIVE next_item_newest(_)
next_item_newest(ids) ==
    IF ids = <<>> THEN 0
    ELSE LET r == next_item_newest(Tail(ids))
         IN IF r # 0 THEN r
            ELSE IF Head(ids) \in DOMAIN queue /\ queue[Head(ids)].status = QUEUED
                 THEN Head(ids)
                 ELSE 0

\* _process_queue: the scan of _order for the first QUEUED item (0: none)
RECURSIVE next_item(_)
next_item(ids) ==
    IF ids = <<>> THEN 0
    ELSE IF Head(ids) \in DOMAIN queue /\ queue[Head(ids)].status = QUEUED
         THEN Head(ids)
         ELSE next_item(Tail(ids))

\* _process_queue finds an item and _download_item runs up to its
\* `await ytdlp_service.download(...)`.
worker_start ==
    /\ running
    /\ pc = "idle"
    /\ next_item(order) # 0
    /\ LET item_id == next_item(order)
           item == [queue[item_id] EXCEPT !.status = DOWNLOADING]
       IN IF item_id \in cancelled
          THEN UNCHANGED <<queue, subscribers, pc, cur, runCancelled>>
          ELSE /\ CanEmit
               /\ queue' = [queue EXCEPT ![item_id] = item]
               /\ subscribers' = broadcast_update(item, FALSE)
               /\ pc' = "meta"
               /\ cur' = item_id
               /\ runCancelled' = FALSE
    /\ last' = Step
    /\ UNCHANGED <<order, cancelled, running, progress_queue, exc,
                   issued, removedIds>>
    /\ UNCHANGED <<nfs, tc, sse, fn, rl, mc, lk>>

\* _process_queue found no QUEUED item: asyncio.sleep(1)
worker_sleep ==
    /\ running
    /\ pc = "idle"
    /\ next_item(order) = 0
    /\ last' = Step
    /\ UNCHANGED <<queue, order, cancelled, running, subscribers,
                   progress_queue, pc, cur, exc, issued, removedIds, runCancelled>>
    /\ UNCHANGED <<nfs, tc, sse, fn, rl, mc, lk>>

\* A stage of YTDLPService.download ends: it goes on to the next stage or
\* raises one of msgs.
StageEnd(from, to, msgs) ==
    /\ pc = from
    /\ \/ pc' = to /\ exc' = NULL
       \/ pc' = "raised" /\ exc' \in msgs
    /\ last' = Step
    /\ UNCHANGED <<queue, order, cancelled, running, subscribers,
                   progress_queue, cur, issued, removedIds, runCancelled>>
    /\ UNCHANGED <<nfs, tc, sse, fn, rl, mc, lk>>

\* ytdlp.py download: _extract_metadata in the executor
extract_metadata == StageEnd("meta", "place", CollabMsgs)

\* ytdlp.py download: _get_output_dir and the validation of output_dir
validate_output_dir == StageEnd("place", "fetch", {MsgMount})

\* ytdlp.py download: _download in the executor returns or raises
download_end == StageEnd("fetch", "post", CollabMsgs)

\* ytdlp.py download: location of the final file, then `return str(final_file)`
locate_file == StageEnd("post", "returned", {MsgLocate})

\* The data progress_hook hands to progress_callback for a hook event
HookData(d) ==
    IF d.status = "downloading"
    THEN [status |-> "downloading", progress |-> parse_progress(d.percent_str)]
    ELSE [status |-> "processing", progress |-> 100]

HookEvents ==
    [status : {"downloading"}, percent_str : PercentStrs]
        \cup [status : {"finished"}, percent_str : {"100%"}]

\* _download_item.cancel_check
cancel_check == cur \in cancelled

\* Variant of progress_hook: the callback writes the progress to the item
progress_hook_direct(d) ==
    /\ pc = "fetch"
    /\ IF cancel_check
       THEN /\ pc' = "raised"
            /\ exc' = MsgCancelled
            /\ UNCHANGED queue
       ELSE /\ cur \in DOMAIN queue
            /\ queue' = [queue EXCEPT ![cur].progress = HookData(d).progress]
            /\ UNCHANGED <<pc, exc>>
    /\ last' = Step
    /\ UNCHANGED <<order, cancelled, running, subscribers, progress_queue, cur,
                   issued, removedIds, runCancelled>>
    /\ UNCHANGED <<nfs, tc, sse, fn, rl, mc, lk>>

\* ytdlp.py download.progress_hook, with _download_item.progress_callback
progress_hook(d) ==
    /\ pc = "fetch"
    /\ IF cancel_check
       THEN /\ pc' = "raised"
            /\ exc' = MsgCancelled
            /\ UNCHANGED progress_queue
       ELSE /\ Len(progress_queue) < MaxRelay
            /\ progress_queue' = Append(progress_queue, <<cur, HookData(d)>>)
            /\ UNCHANGED <<pc, exc>>
    /\ last' = Step
    /\ UNCHANGED <<queue, order, cancelled, running, subscribers, cur,
                   issued, removedIds, runCancelled>>
    /\ UNCHANGED <<nfs, tc, sse, fn, rl, mc, lk>>

\* Variant of download_returned: the item is left as the run found it
download_returned_unmarked ==
    /\ running
    /\ pc = "returned"
    /\ pc' = "idle"
    /\ cur' = 0
    /\ exc' = NULL
    /\ last' = Step
    /\ UNCHANGED <<queue, subscribers, order, cancelled, running, progress_queue,
                   issued, removedIds, runCancelled>>
    /\ UNCHANGED <<nfs, tc, sse, fn, rl, mc, lk>>

\* _download_item after download returned: "Mark as completed"
download_returned ==
    /\ running
    /\ pc = "returned"
    /\ LET is_cancelled == cur \in cancelled
       IN IF cur \in DOMAIN queue /\ ~is_cancelled
          THEN LET item == [queue[cur] EXCEPT !.status = COMPLETED,
                                              !.progress = 100,
                                              !.completed_at = "now",
                                              !.file_path = download_path(
                                                  queue[cur].is_audio_only,
                                                  send_to_plex_default)]
               IN /\ CanEmit
                  /\ queue' = [queue EXCEPT ![cur] = item]
                  /\ subscribers' = broadcast_update(item, FALSE)
          ELSE UNCHANGED <<queue, subscribers>>
    /\ pc' = "idle"
    /\ cur' = 0
    /\ exc' = NULL
    /\ last' = Step
    /\ UNCHANGED <<order, cancelled, running, progress_queue, issued,
                   removedIds, runCancelled>>
    /\ UNCHANGED <<nfs, tc, sse, fn, rl, mc, lk>>

\* Variant of download_raised: every exception marks the item failed and
\* the message is not kept
download_raised_no_error ==
    /\ running
    /\ pc = "raised"
    /\ IF cur \in DOMAIN queue
       THEN LET item == [queue[cur] EXCEPT !.status = FAILED]
            IN /\ CanEmit
               /\ queue' = [queue EXCEPT ![cur] = item]
               /\ subscribers' = broadcast_update(item, FALSE)
       ELSE UNCHANGED <<queue, subscribers>>
    /\ pc' = "idle"
    /\ cur' = 0
    /\ exc' = NULL
    /\ last' = Step
    /\ UNCHANGED <<order, cancelled, running, progress_queue, issued,
                   removedIds, runCancelled>>
    /\ UNCHANGED <<nfs, tc, sse, fn, rl, mc, lk>>

\* _download_item: `except Exception as e`
download_raised ==
    /\ running
    /\ pc = "raised"
    /\ IF cur \in DOMAIN queue
       THEN LET item == IF IsCancelMsg(exc)
                        THEN [queue[cur] EXCEPT !.status = CANCELLED]
                        ELSE [queue[cur] EXCEPT !.status = FAILED, !.error = exc]
            IN /\ CanEmit
               /\ queue' = [queue EXCEPT ![cur] = item]
               /\ subscribers' = broadcast_update(item, FALSE)
       ELSE UNCHANGED <<queue, subscribers>>
    /\ pc' = "idle"
    /\ cur' = 0
    /\ exc' = NULL
    /\ last' = Step
    /\ UNCHANGED <<order, cancelled, running, progress_queue, issued,
                   removedIds, runCancelled>>
    /\ UNCHANGED <<nfs, tc, sse, fn, rl, mc, lk>>

\* _process_progress_updates: one get_nowait and its _apply_progress_update
apply_progress_update ==
    /\ running
    /\ LoopFree
    /\ progress_queue # <<>>
    /\ LET item_id == Head(progress_queue)[1]
           data == Head(progress_queue)[2]
       IN IF item_id \in DOMAIN queue
          THEN LET item == [queue[item_id] EXCEPT
                               !.progress = data.progress,
                               !.status = IF data.status = "processing"
                                          THEN PROCESSING ELSE @]
               IN /\ CanEmit
                  /\ queue' = [queue EXCEPT ![item_id] = item]
                  /\ subscribers' = broadcast_update(item, FALSE)
          ELSE UNCHANGED <<queue, subscribers>>
    /\ progress_queue' = Tail(progress_queue)
    /\ last' = Step
    /\ UNCHANGED <<order, cancelled, running, pc, cur, exc, issued,
                   removedIds, runCancelled>>
    /\ UNCHANGED <<nfs, tc, sse, fn, rl, mc, lk>>

Next ==
    \/ start_worker
    \/ \E request \in Requests : add_to_queue(request)
    \/ \E id \in ItemIds : remove_from_queue(id)
    \/ \E id \in ItemIds : cancel_download(id)
    \/ \E id \in ItemIds : retry_download(id)
    \/ clear_completed
    \/ cancel_all
    \/ worker_start
    \/ worker_sleep
    \/ extract_metadata
    \/ validate_output_dir
    \/ \E d \in HookEvents : progress_hook(d)
    \/ download_end
    \/ locate_file
    \/ download_returned
    \/ download_raised
    \/ apply_progress_update

Spec == Init /\ [][Next]_vars

\* The queue together with its SSE subscribers
NextSSE ==
    \/ Next
    \/ subscribe
    \/ \E i \in 1..MaxSubscribers : unsubscribe(i)
    \/ \E i \in 1..MaxSubscribers : deliver(i)

SpecSSE == Init /\ [][NextSSE]_vars

----------------------------------------------------------------------------
\* _retry_nfs_operation, one loop iteration per step

\* A caller enters _retry_nfs_operation(operation, max_retries, path)
retry_nfs_call(max_retries, has_path, script) ==
    /\ nfs.phase = "idle"
    /\ nfs' = [NoRetryCall EXCEPT !.phase = "running",
                                  !.max_retries = max_retries,
                                  !.has_path = has_path,
                                  !.script = script]
    /\ UNCHANGED <<queueVars, tc, sse, fn, rl, mc, lk>>

\* One iteration of `for attempt in range(max_retries)`
retry_nfs_attempt ==
    /\ nfs.phase = "running"
    /\ IF nfs.attempt >= nfs.max_retries
       THEN nfs' = [nfs EXCEPT !.phase = "returned", !.result = "None"]
       ELSE LET outcome == nfs.script[nfs.calls + 1]
                invoked == [nfs EXCEPT !.calls = @ + 1]
            IN IF outcome = OpOk
               THEN nfs' = [invoked EXCEPT !.phase = "returned", !.result = OpOk]
               ELSE IF stale_handle(outcome)
                       /\ may_retry(nfs.attempt, nfs.max_retries)
                    THEN nfs' = [invoked EXCEPT
                            !.refreshes = IF nfs.has_path THEN @ + 1 ELSE @,
                            !.settles = IF nfs.has_path THEN @ + 1 ELSE @,
                            !.waits = Append(@, wait_time(nfs.attempt)),
                            !.attempt = @ + 1]
                    ELSE nfs' = [invoked EXCEPT !.phase = "raised",
                                                !.result = outcome]
    /\ UNCHANGED <<queueVars, tc, sse, fn, rl, mc, lk>>

\* The callers of _retry_nfs_operation and the operations they pass
retry_nfs_calls ==
    /\ nfs.phase = "idle"
    /\ \E max_retries \in 1..MaxRetriesArg, has_path \in BOOLEAN,
          script \in OpScripts : retry_nfs_call(max_retries, has_path, script)

NextRetry ==
    \/ retry_nfs_calls
    \/ retry_nfs_attempt

\* The calls of _retry_nfs_operation
SpecRetry == Init /\ [][NextRetry]_vars

----------------------------------------------------------------------------
\* The conversion branch of YTDLPService.download and _convert_video, one
\* ffmpeg event per step

\* ytdlp.py 609-664: download reaches its conversion branch with the fetched
\* file in place.  Without convert_video, or for an audio item, it returns
\* the file's path; a file that fails the validation makes it raise;
\* otherwise it pushes the "converting" delta and hands _convert_video to
\* the executor.
download_convert_begin(convert_video, is_audio_only, valid) ==
    /\ tc.phase = "idle"
    /\ IF ~(convert_video /\ ~is_audio_only)
       THEN tc' = [tc EXCEPT !.phase = "returned", !.path = OriginalFile]
       ELSE IF ~valid
            THEN tc' = [tc EXCEPT !.phase = "raised",
                                  !.error = "Cannot convert file - validation failed"]
            ELSE tc' = [tc EXCEPT !.phase = "converting", !.pushed = <<0>>]
    /\ UNCHANGED <<queueVars, nfs, sse, fn, rl, mc, lk>>

\* The attempt that starts at loop index attempt
NewTry(use_hw_accel, attempt) ==
    [encoder |-> IF use_hw_accel /\ attempt = 0 THEN "gpu" ELSE "cpu",
     exit |-> "running"]

\* _convert_video up to the first Popen: GPU detection, the cancel check
convert_start(use_hw_accel, flagged) ==
    /\ tc.phase = "converting"
    /\ IF flagged
       THEN tc' = [tc EXCEPT !.phase = "failed",
                             !.use_hw_accel = use_hw_accel,
                             !.error = "Conversion cancelled"]
       ELSE tc' = [tc EXCEPT !.phase = "encoding",
                             !.use_hw_accel = use_hw_accel,
                             !.tries = <<NewTry(use_hw_accel, 0)>>]
    /\ UNCHANGED <<queueVars, nfs, sse, fn, rl, mc, lk>>

\* One line of ffmpeg's stdout: the cancel check, then the progress
ffmpeg_line(flagged, progress) ==
    /\ tc.phase = "encoding"
    /\ IF flagged
       THEN tc' = [tc EXCEPT !.phase = "failed",
                             !.tries[Len(tc.tries)].exit = "terminated",
                             !.error = "Conversion cancelled"]
       ELSE IF progress > tc.last_progress
            THEN tc' = [tc EXCEPT !.last_progress = progress,
                                  !.pushed = Append(@, mapped_progress(progress))]
            ELSE UNCHANGED tc
    /\ UNCHANGED <<queueVars, nfs, sse, fn, rl, mc, lk>>

\* The ffmpeg process ends: returncode 0, or nonzero with the given stderr
ffmpeg_exit(outcome) ==
    /\ tc.phase = "encoding"
    /\ LET n == Len(tc.tries)
           try_gpu == tc.use_hw_accel /\ tc.attempt = 0
           ended == [tc EXCEPT !.tries[n].exit = outcome]
       IN IF outcome = OpOk
          THEN tc' = [ended EXCEPT !.phase = "encoded"]
          ELSE IF gpu_fallback(try_gpu, outcome)
               THEN IF tc.attempt + 1 < 2
                    THEN tc' = [ended EXCEPT
                            !.attempt = @ + 1,
                            !.last_progress = 0,
                            !.tries = Append(@, NewTry(tc.use_hw_accel,
                                                       tc.attempt + 1))]
                    ELSE tc' = [ended EXCEPT
                            !.phase = "failed",
                            !.error = "Video conversion failed with both GPU and CPU encoding"]
               ELSE tc' = [ended EXCEPT !.phase = "failed",
                                        !.error = "Video conversion failed"]
    /\ UNCHANGED <<queueVars, nfs, sse, fn, rl, mc, lk>>

\* After the loop: the checks of the temporary file, the replacement of the
\* source file, `return output_file`
convert_finish(temp_ok) ==
    /\ tc.phase = "encoded"
    /\ IF temp_ok
       THEN tc' = [tc EXCEPT !.phase = "done"]
       ELSE tc' = [tc EXCEPT !.phase = "failed",
                             !.error = "Conversion output file was not created"]
    /\ UNCHANGED <<queueVars, nfs, sse, fn, rl, mc, lk>>

\* Variant of download_convert_end: a failure of _convert_video is raised
\* again
download_convert_end_raises ==
    /\ tc.phase \in {"done", "failed"}
    /\ IF tc.phase = "done"
       THEN tc' = [tc EXCEPT !.phase = "returned", !.path = ConvertedFile,
                             !.pushed = Append(@, 100)]
       ELSE tc' = [tc EXCEPT !.phase = "raised"]
    /\ UNCHANGED <<queueVars, nfs, sse, fn, rl, mc, lk>>

\* ytdlp.py 684-717: _convert_video returned or raised; either way download
\* pushes the progress-100 delta and returns str(final_file)
download_convert_end ==
    /\ tc.phase \in {"done", "failed"}
    /\ tc' = [tc EXCEPT !.phase = "returned",
                        !.path = IF tc.phase = "done"
                                 THEN ConvertedFile ELSE OriginalFile,
                        !.pushed = Append(@, 100)]
    /\ UNCHANGED <<queueVars, nfs, sse, fn, rl, mc, lk>>

NextConvert ==
    \/ \E convert_video \in BOOLEAN, is_audio_only \in BOOLEAN,
          valid \in BOOLEAN :
          download_convert_begin(convert_video, is_audio_only, valid)
    \/ download_convert_end
    \/ \E use_hw_accel \in BOOLEAN, flagged \in BOOLEAN :
          convert_start(use_hw_accel, flagged)
    \/ \E flagged \in BOOLEAN, progress \in FfmpegPercents :
          ffmpeg_line(flagged, progress)
    \/ \E outcome \in {OpOk} \cup StderrTexts : ffmpeg_exit(outcome)
    \/ \E temp_ok \in BOOLEAN : convert_finish(temp_ok)

\* The conversions of YTDLPService.download
SpecConvert == Init /\ [][NextConvert]_vars

----------------------------------------------------------------------------
\* The fan-out on its own, the events numbered in the order of emission

\* subscribe: a new asyncio.Queue at the end of _subscribers
sse_subscribe ==
    /\ Len(sse.seen) < MaxSubscriptions
    /\ sse' = [sse EXCEPT !.subs = Append(@, [sid |-> Len(sse.seen) + 1,
                                              q |-> <<>>]),
                          !.seen = Append(@, <<>>),
                          !.got = Append(@, <<>>)]
    /\ UNCHANGED <<queueVars, nfs, tc, fn, rl, mc, lk>>

\* unsubscribe: _subscribers.remove(queue)
sse_unsubscribe(i) ==
    /\ i \in DOMAIN sse.subs
    /\ sse' = [sse EXCEPT !.subs = [k \in 1..(Len(sse.subs) - 1) |->
                                      IF k < i THEN sse.subs[k]
                                      ELSE sse.subs[k + 1]]]
    /\ UNCHANGED <<queueVars, nfs, tc, fn, rl, mc, lk>>

\* _send_to_subscribers(data): put_nowait on every queue of _subscribers
sse_send ==
    /\ sse.emitted < MaxEvents
    /\ LET data == sse.emitted + 1
           sids == {sse.subs[k].sid : k \in DOMAIN sse.subs}
       IN sse' = [sse EXCEPT
                    !.emitted = data,
                    !.subs = [k \in DOMAIN sse.subs |->
                                [sse.subs[k] EXCEPT !.q = Append(@, data)]],
                    !.seen = [sid \in DOMAIN sse.seen |->
                                IF sid \in sids THEN Append(sse.seen[sid], data)
                                ELSE sse.seen[sid]]]
    /\ UNCHANGED <<queueVars, nfs, tc, fn, rl, mc, lk>>

\* Variant of sse_get: the newest event of the queue is taken
sse_get_newest(i) ==
    /\ i \in DOMAIN sse.subs
    /\ sse.subs[i].q # <<>>
    /\ LET q == sse.subs[i].q
       IN sse' = [sse EXCEPT
                    !.subs[i].q = SubSeq(q, 1, Len(q) - 1),
                    !.got[sse.subs[i].sid] = Append(@, q[Len(q)])]
    /\ UNCHANGED <<queueVars, nfs, tc, fn, rl, mc, lk>>

\* event_generator: `message = await subscriber_queue.get()`, then the yield
sse_get(i) ==
    /\ i \in DOMAIN sse.subs
    /\ sse.subs[i].q # <<>>
    /\ sse' = [sse EXCEPT
                 !.subs[i].q = Tail(@),
                 !.got[sse.subs[i].sid] = Append(@, Head(sse.subs[i].q))]
    /\ UNCHANGED <<queueVars, nfs, tc, fn, rl, mc, lk>>

NextFanout ==
    \/ sse_subscribe
    \/ \E i \in 1..MaxSubscriptions : sse_unsubscribe(i)
    \/ sse_send
    \/ \E i \in 1..MaxSubscriptions : sse_get(i)

\* The event streams of the subscribers
SpecFanout == Init /\ [][NextFanout]_vars

----------------------------------------------------------------------------
\* The progress relay on its own, the deltas numbered in the order of the
\* pushes

\* start_worker: the consumer task is created
relay_start ==
    /\ ~rl.running
    /\ rl' = [rl EXCEPT !.running = TRUE]
    /\ UNCHANGED <<queueVars, nfs, tc, sse, fn, mc, lk>>

\* add_to_queue: a new item in _queue
relay_add ==
    /\ rl.issued < MaxItems
    /\ rl' = [rl EXCEPT !.issued = @ + 1, !.present = @ \cup {rl.issued + 1}]
    /\ UNCHANGED <<queueVars, nfs, tc, sse, fn, mc, lk>>

\* remove_from_queue / clear_completed: `del self._queue[item_id]`
relay_remove(id) ==
    /\ id \in rl.present
    /\ rl' = [rl EXCEPT !.present = @ \ {id}]
    /\ UNCHANGED <<queueVars, nfs, tc, sse, fn, mc, lk>>

\* _download_item.progress_callback, called by the run of item_id:
\* `self._progress_queue.put_nowait((item_id, data))`
relay_push(item_id, data) ==
    /\ item_id \in 1..rl.issued
    /\ Len(rl.log) < MaxDeltas
    /\ rl' = [rl EXCEPT
                !.relay = Append(@, [item_id |-> item_id, data |-> data,
                                     n |-> Len(rl.log) + 1]),
                !.log = Append(@, <<item_id, data>>)]
    /\ UNCHANGED <<queueVars, nfs, tc, sse, fn, mc, lk>>

\* The consumer's step for the entry e it took off the relay:
\* _apply_progress_update(item_id, data)
relay_applied(e, rest) ==
    IF e.item_id \in rl.present
    THEN [rl EXCEPT
            !.relay = rest,
            !.progress[e.item_id] = e.data.progress,
            !.status[e.item_id] = IF e.data.status = "processing"
                                  THEN PROCESSING ELSE @,
            !.applied = Append(@, e.n)]
    ELSE [rl EXCEPT !.relay = rest, !.dropped = @ \cup {e.n}]

\* Variant of relay_apply: the newest entry of the relay is taken
relay_apply_newest ==
    /\ rl.running
    /\ rl.relay # <<>>
    /\ rl' = relay_applied(rl.relay[Len(rl.relay)],
                           SubSeq(rl.relay, 1, Len(rl.relay) - 1))
    /\ UNCHANGED <<queueVars, nfs, tc, sse, fn, mc, lk>>

\* _process_progress_updates: one get_nowait and its _apply_progress_update
relay_apply ==
    /\ rl.running
    /\ rl.relay # <<>>
    /\ rl' = relay_applied(Head(rl.relay), Tail(rl.relay))
    /\ UNCHANGED <<queueVars, nfs, tc, sse, fn, mc, lk>>

NextRelay ==
    \/ relay_start
    \/ relay_add
    \/ \E id \in ItemIds : relay_remove(id)
    \/ \E id \in ItemIds, d \in HookEvents : relay_push(id, HookData(d))
    \/ relay_apply

\* The relay between the callbacks and the consumer.  The consumer polls the
\* relay every 0.1 s as long as it runs, so an entry does not wait for ever.
SpecRelay == Init /\ [][NextRelay]_vars /\ WF_vars(relay_apply)

----------------------------------------------------------------------------
\* The mount-status cache

\* Time passes between two calls
clock_advance(seconds) ==
    /\ mc.ticks < MaxTicks
    /\ mc' = [mc EXCEPT !.now = @ + seconds, !.ticks = @ + 1]
    /\ UNCHANGED <<queueVars, nfs, tc, sse, fn, rl, lk>>

\* The age of the entry of mount_path, -1 when there is none
AgeOf(cache, mount_path, now) ==
    IF mount_path \in DOMAIN cache THEN now - cache[mount_path].timestamp ELSE -1

\* get_plex_status(use_cache); available[m] is what _check_plex_mounts finds
\* for mount m when it probes
get_plex_status(use_cache, available) ==
    /\ mc.queries < MaxTicks
    /\ LET movies == get_cached_mount_status(mc.cache, "movies", mc.now)
           music == get_cached_mount_status(movies.cache, "music", mc.now)
           ages == [m \in Mounts |-> AgeOf(mc.cache, m, mc.now)]
       IN IF use_cache /\ movies.ret # "None" /\ music.ret # "None"
          THEN mc' = [mc EXCEPT
                        !.queries = @ + 1,
                        !.cache = music.cache,
                        !.last = [use_cache |-> use_cache, ages |-> ages,
                                  probed |-> FALSE,
                                  result |-> [m \in Mounts |->
                                      IF m = "movies" THEN movies.ret = "True"
                                      ELSE music.ret = "True"]]]
          ELSE LET looked == IF use_cache THEN music.cache ELSE mc.cache
                   checked == set_cached_mount_status(
                                  set_cached_mount_status(
                                      looked, "movies", available["movies"], mc.now),
                                  "music", available["music"], mc.now)
               IN mc' = [mc EXCEPT
                            !.queries = @ + 1,
                            !.cache = checked,
                            !.last = [use_cache |-> use_cache, ages |-> ages,
                                      probed |-> TRUE, result |-> available]]
    /\ UNCHANGED <<queueVars, nfs, tc, sse, fn, rl, lk>>

\* _mount_health_monitor: its pass over one mount ends with
\* _set_cached_mount_status
mount_health_monitor(mount_path, is_available) ==
    /\ mc' = [mc EXCEPT !.cache = set_cached_mount_status(
                                      mc.cache, mount_path, is_available, mc.now)]
    /\ UNCHANGED <<queueVars, nfs, tc, sse, fn, rl, lk>>

NextMounts ==
    \/ \E seconds \in ClockSteps : clock_advance(seconds)
    \/ \E use_cache \in BOOLEAN, available \in [Mounts -> BOOLEAN] :
          get_plex_status(use_cache, available)
    \/ \E m \in Mounts, is_available \in BOOLEAN :
          mount_health_monitor(m, is_available)

\* The status queries and the health monitor over the cache
SpecMounts == Init /\ [][NextMounts]_vars

----------------------------------------------------------------------------
\* The locks of the queue manager

\* A call begins: a coroutine when the event loop is free, the poll on its
\* thread at any time
lock_call(task, op) ==
    /\ lk.calls < MaxLockCalls
    /\ lk.op[task] = "none"
    /\ IF task \in LoopTasks
       THEN /\ op \in LoopOps
            /\ lk.current = -1
            /\ lk' = [lk EXCEPT !.op[task] = op, !.ip[task] = 1,
                                !.current = task, !.calls = @ + 1]
       ELSE /\ op \in ThreadOps
            /\ lk' = [lk EXCEPT !.op[task] = op, !.ip[task] = 1,
                                !.calls = @ + 1]
    /\ UNCHANGED <<queueVars, nfs, tc, sse, fn, rl, mc>>

\* The next lock operation of the call of task.  A coroutine runs while it
\* has the event loop; on `async with self._lock` with the lock taken it
\* gives the loop up and goes on when the lock is free.  `with
\* self._thread_lock` blocks the thread that executes it, the event loop's
\* thread included.
lock_step(task) ==
    /\ lk.op[task] # "none"
    /\ task \in LoopTasks => lk.current \in {-1, task}
    /\ LET program == LockProgram(lk.op[task])
           ip == lk.ip[task]
       IN IF ip > Len(program)
          THEN lk' = [lk EXCEPT !.op[task] = "none", !.ip[task] = 0,
                                !.current = IF task \in LoopTasks THEN -1 ELSE @]
          ELSE CASE program[ip] = "acq_m" ->
                      IF lk.m = -1
                      THEN lk' = [lk EXCEPT !.m = task, !.ip[task] = ip + 1,
                                            !.current = task]
                      ELSE /\ lk.current = task
                           /\ lk' = [lk EXCEPT !.current = -1]
                 [] program[ip] = "rel_m" ->
                      lk' = [lk EXCEPT !.m = -1, !.ip[task] = ip + 1]
                 [] program[ip] = "acq_t" ->
                      /\ lk.t = -1
                      /\ lk' = [lk EXCEPT !.t = task, !.ip[task] = ip + 1]
                 [] program[ip] = "rel_t" ->
                      lk' = [lk EXCEPT !.t = -1, !.ip[task] = ip + 1]
    /\ UNCHANGED <<queueVars, nfs, tc, sse, fn, rl, mc>>

NextLocks ==
    \/ \E task \in LockTasks, op \in LoopOps \cup ThreadOps : lock_call(task, op)
    \/ \E task \in LockTasks : lock_step(task)

\* The calls over the two locks.  The event loop runs every coroutine that
\* is ready and the thread pool runs its threads.
SpecLocks ==
    Init /\ [][NextLocks]_vars /\ \A task \in LockTasks : WF_vars(lock_step(task))

----------------------------------------------------------------------------
\* Calls of the naming helpers

\* A caller sanitizes a name
sanitize_call ==
    /\ fn.op = "none"
    /\ \E name \in Names :
          fn' = [op |-> "sanitize", arg |-> name, out |-> sanitize_filename(name)]
    /\ UNCHANGED <<queueVars, nfs, tc, sse, rl, mc, lk>>

\* A caller sanitizes a name that _sanitize_filename returned
sanitize_again ==
    /\ fn.op = "sanitize"
    /\ fn' = [op |-> "sanitize", arg |-> fn.out, out |-> sanitize_filename(fn.out)]
    /\ UNCHANGED <<queueVars, nfs, tc, sse, rl, mc, lk>>

\* download asks for the next track number of an album directory
track_number_call ==
    /\ fn.op = "none"
    /\ \E dir \in AlbumDirs :
          fn' = [op |-> "track", arg |-> dir, out |-> get_track_number(dir)]
    /\ UNCHANGED <<queueVars, nfs, tc, sse, rl, mc, lk>>

\* download infers the artist and the title of an audio item
infer_call ==
    /\ fn.op = "none"
    /\ \E info \in VideoInfos :
          fn' = [op |-> "infer", arg |-> info, out |-> infer_artist_title(info)]
    /\ UNCHANGED <<queueVars, nfs, tc, sse, rl, mc, lk>>

NextNaming ==
    \/ sanitize_call
    \/ sanitize_again
    \/ track_number_call
    \/ infer_call

\* The naming helpers
SpecNaming == Init /\ [][NextNaming]_vars

----------------------------------------------------------------------------
\* Properties

Terminal == {COMPLETED, FAILED, CANCELLED}

Active == {id \in DOMAIN queue : queue[id].status \in {DOWNLOADING, PROCESSING}}

\* The ids of list(), in its order
ListIds(q, ord) ==
    LET items == get_queue_of(q, ord).items
    IN [i \in DOMAIN items |-> items[i].id]

\* C1: in every reachable state at most one item of the queue is
\* `downloading` or `processing`.
C1_AtMostOneActive == Cardinality(Active) <= 1

\* C2: a pipeline run during which a cancel of its item was accepted (the
\* item was `downloading`) does not end with the worker marking that item
\* `completed`, whatever happened in between.
C2_CancelledRunNeverCompletes ==
    [][(pc = "returned" /\ pc' = "idle" /\ runCancelled /\ cur \in DOMAIN queue')
          => queue'[cur].status # COMPLETED]_vars

\* C3: a `completed` item keeps its status as long as it is in the queue, and
\* the status of a `failed` or `cancelled` item changes only by an accepted
\* retry, which makes it `queued`.
C3_TerminalIsStable ==
    [][\A id \in DOMAIN queue \cap DOMAIN queue' :
          /\ queue[id].status = COMPLETED => queue'[id].status = COMPLETED
          /\ (queue[id].status \in {FAILED, CANCELLED}
                 /\ queue'[id].status # queue[id].status)
                => /\ last' = Call("retry", id, TRUE, 0)
                   /\ queue'[id].status = QUEUED]_vars

\* C4: whenever the worker starts an item, it is the earliest item of the
\* insertion order that is `queued` at that moment, and an accepted retry
\* leaves the insertion order as it is.
C4_WorkerStartsOldestQueued ==
    [][/\ (pc = "idle" /\ pc' # "idle")
            => \E j \in DOMAIN order :
                  /\ order[j] = cur'
                  /\ queue[cur'].status = QUEUED
                  /\ \A i \in 1..(j - 1) :
                        order[i] \in DOMAIN queue => queue[order[i]].status # QUEUED
       /\ (last'.op = "retry" /\ last'.ret) => order' = order]_vars

\* C4 witness: the worker has started the first item of the order after the
\* second one was completed (the first item had been retried).
C4_Witness ==
    /\ pc = "meta"
    /\ Len(order) = 2
    /\ cur = order[1]
    /\ queue[order[2]].status = COMPLETED

\* C5: list() is the enqueued items in enqueue order (ids are issued in
\* increasing order) without exactly the removed and cleared ones.
C5_ListIsInsertionOrder ==
    LET ids == ListIds(queue, order)
    IN /\ \A i, j \in DOMAIN ids : i < j => ids[i] < ids[j]
       /\ {ids[i] : i \in DOMAIN ids} = (1..issued) \ removedIds
       /\ \A i \in DOMAIN ids : get_queue.items[i] = queue[ids[i]]

\* C5 witness: the first of two items was removed and the second is listed.
C5_Witness ==
    /\ issued = 2
    /\ removedIds = {1}
    /\ ListIds(queue, order) = <<2>>

\* C6: retry(id) returns true exactly when the item exists and is `failed`
\* or `cancelled`; then the item is `queued` with progress 0, no error and no
\* cancellation flag; otherwise nothing changes, the event streams included.
C6_RetryContract ==
    [][last'.op = "retry" =>
          LET id == last'.id
          IN /\ last'.ret <=> (id \in DOMAIN queue
                                 /\ queue[id].status \in {FAILED, CANCELLED})
             /\ last'.ret => /\ id \in DOMAIN queue'
                             /\ queue'[id].status = QUEUED
                             /\ queue'[id].progress = 0
                             /\ queue'[id].error = NULL
                             /\ id \notin cancelled'
             /\ ~last'.ret => UNCHANGED <<queue, order, cancelled, subscribers>>]_vars

\* C6 witness: a retry was accepted and a subscriber has the item_update of
\* the requeued item.
C6_Witness ==
    /\ last.op = "retry"
    /\ last.ret
    /\ subscribers # <<>>
    /\ subscribers[1] # <<>>
    /\ LET e == subscribers[1][Len(subscribers[1])]
       IN /\ e.type = "item_update"
          /\ e.item.id = last.id
          /\ e.item.status = QUEUED

\* C7: cancel(id) returns true exactly when the item exists and is `queued`
\* or `downloading`; then the id is flagged and the status is `cancelled`;
\* otherwise neither the queue nor the flag set changes.
C7_CancelContract ==
    [][last'.op = "cancel" =>
          LET id == last'.id
          IN /\ last'.ret <=> (id \in DOMAIN queue
                                 /\ queue[id].status \in {QUEUED, DOWNLOADING})
             /\ last'.ret => /\ id \in cancelled'
                             /\ id \in DOMAIN queue'
                             /\ queue'[id].status = CANCELLED
             /\ ~last'.ret => UNCHANGED <<queue, order, cancelled>>]_vars

\* C7 witness: a cancel of a `processing` item was refused.
C7_Witness ==
    /\ last.op = "cancel"
    /\ ~last.ret
    /\ last.id \in DOMAIN queue
    /\ queue[last.id].status = PROCESSING

\* C8: remove(id) deletes an existing item and returns true, flagging it
\* first when it was `downloading`, so that no progress hook of its run
\* passes the cancellation check any more; on an unknown id it returns false
\* and changes nothing; a removed id never comes back.
C8_RemoveContract ==
    [][/\ last'.op = "remove" =>
             LET id == last'.id
             IN /\ last'.ret <=> id \in DOMAIN queue
                /\ last'.ret =>
                      /\ id \notin DOMAIN queue'
                      /\ \A i \in DOMAIN order' : order'[i] # id
                      /\ queue[id].status = DOWNLOADING => id \in cancelled'
                /\ ~last'.ret => UNCHANGED <<queue, order, cancelled, subscribers>>
       /\ \A id \in removedIds :
             /\ id \notin DOMAIN queue'
             /\ \A i \in DOMAIN order' : order'[i] # id
             /\ id \in cancelled => id \in cancelled'
       /\ (pc = "fetch" /\ cur \in removedIds /\ cur \in cancelled)
             => Len(progress_queue') <= Len(progress_queue)]_vars

\* C8 witness: the run of an item removed while downloading was aborted by
\* the cancellation check.
C8_Witness ==
    /\ cur \in removedIds
    /\ pc = "raised"
    /\ exc = MsgCancelled

\* C9: cancelAll() returns a count and leaves every item that was not
\* terminal `cancelled` and flagged, and every terminal item as it was.
C9_CancelAllCancels ==
    [][last'.op = "cancel_all" =>
          /\ last'.ret
          /\ \A id \in DOMAIN queue :
                IF queue[id].status \in Terminal
                THEN id \in DOMAIN queue' /\ queue'[id] = queue[id]
                ELSE /\ id \in DOMAIN queue'
                     /\ queue'[id].status = CANCELLED
                     /\ id \in cancelled']_vars

\* C10: clearCompleted() removes exactly the `completed` items, returns
\* their number, leaves the other items and their order alone, and
\* broadcasts one full_update if and only if it removed something.
C10_ClearCompletedContract ==
    [][last'.op = "clear_completed" =>
          LET done == {id \in DOMAIN queue : queue[id].status = COMPLETED}
          IN /\ DOMAIN queue' = DOMAIN queue \ done
             /\ last'.count = Cardinality(done)
             /\ \A id \in DOMAIN queue' : queue'[id] = queue[id]
             /\ ListIds(queue', order')
                   = SelectSeq(ListIds(queue, order), LAMBDA id : id \notin done)
             /\ cancelled' = cancelled
             /\ IF done # {}
                THEN /\ DOMAIN subscribers' = DOMAIN subscribers
                     /\ \A i \in DOMAIN subscribers :
                           subscribers'[i] = Append(subscribers[i],
                              [type |-> "full_update",
                               queue |-> get_queue_of(queue', order')])
                ELSE subscribers' = subscribers]_vars

\* C10 witness: a clear removed a completed item, left another item in the
\* queue and a subscriber has the full_update.
C10_Witness ==
    /\ last.op = "clear_completed"
    /\ last.count >= 1
    /\ DOMAIN queue # {}
    /\ subscribers # <<>>
    /\ subscribers[1] # <<>>
    /\ subscribers[1][Len(subscribers[1])].type = "full_update"

\* C11: enqueue can always complete while the worker is in the middle of a
\* pipeline run: whenever a run is under way (and the model's bounds leave
\* an id and room for the event) add_to_queue can take its step; it never
\* has to wait for a stage, a retry backoff or a filesystem probe of the run.
C11_EnqueueNeverWaits ==
    (running /\ pc # "idle" /\ issued < MaxItems /\ CanEmit)
        => ENABLED (\E request \in Requests : add_to_queue(request))

\* The run under way raised because its hook found the item flagged
RunWasCancelled == pc = "raised" /\ exc = MsgCancelled

\* C12: an error raised by the pipeline for an item still in the queue is
\* turned into a terminal status of that item: cancelled if the error is
\* the cancellation of the run, failed with the error's message in `error`
\* otherwise; the worker goes back to its loop (idle, still running).
C12_ErrorBecomesTerminalStatus ==
    [][(pc = "raised" /\ pc' = "idle")
          => /\ running'
             /\ cur \in DOMAIN queue =>
                    /\ cur \in DOMAIN queue'
                    /\ IF RunWasCancelled
                       THEN queue'[cur].status = CANCELLED
                       ELSE /\ queue'[cur].status = FAILED
                            /\ queue'[cur].error = exc]_vars

\* C13: between becoming queued and becoming completed an item's progress
\* never decreases, except that an accepted retry puts it back to 0: a step
\* that lowers the progress of an item not yet in a terminal status is an
\* accepted retry of that item.
C13_ProgressMonotonic ==
    [][\A id \in DOMAIN queue \cap DOMAIN queue' :
          (queue[id].status \notin Terminal
              /\ queue'[id].progress < queue[id].progress)
          => last' = Call("retry", id, TRUE, 0)]_vars

\* C14: file_path is set exactly on the completed items.
C14_FilePathIffCompleted ==
    \A id \in DOMAIN queue :
        (queue[id].file_path # NULL) <=> (queue[id].status = COMPLETED)

\* C15: an item whose error is set is failed.
C15_ErrorOnlyWhenFailed ==
    \A id \in DOMAIN queue :
        queue[id].error # NULL => queue[id].status = FAILED

\* C16: every failed item has an error string and every cancelled item has
\* none, an item cancelled while downloading whose run then ended with an
\* error included.
C16_FailedHasErrorCancelledHasNone ==
    \A id \in DOMAIN queue :
        /\ queue[id].status = FAILED => queue[id].error # NULL
        /\ queue[id].status = CANCELLED => queue[id].error = NULL

\* An item was cancelled while downloading (its flag is still set) and its
\* run has since ended with an error; another item is cancelled.
C16_Witness ==
    /\ pc = "idle"
    /\ \E id \in DOMAIN queue :
          /\ id \in cancelled
          /\ queue[id].status = FAILED
          /\ queue[id].error \in CollabMsgs
    /\ \E id \in DOMAIN queue : queue[id].status = CANCELLED

\* C17: an audio-only item enqueued with sendToLibrary = true (every request
\* of Requests is one) whose artist and album resolve is executed with the
\* flag: when the only item ever enqueued is completed its file_path is the
\* first track of its album in the music tree.
C17_LibraryItemPlacedInMusicTree ==
    (issued = 1 /\ \A request \in Requests :
                      request.is_audio_only /\ request.send_to_library)
    => \A id \in DOMAIN queue :
          queue[id].status = COMPLETED
              => queue[id].file_path = "/plex/music/Artist/Album/01 - Title.mp3"

\* The errors the specification calls stale-handle errors
StaleErrors == {ErrStale116, ErrStaleText}

\* The operation raises a stale-handle error on its first k invocations and
\* succeeds on the next
StaleThenOk(script, k) ==
    /\ \A i \in 1..k : script[i] \in StaleErrors
    /\ script[k + 1] = OpOk

RetryEnded == nfs.phase \in {"returned", "raised"}

\* C18: a call with a path and max_retries = n, of an operation that raises
\* a stale-handle error on its first k < n invocations and then succeeds,
\* returns the operation's result after exactly k + 1 invocations and
\* exactly k mount refreshes.
C18_StaleThenSuccess ==
    (RetryEnded /\ nfs.has_path)
    => \A k \in 0..(nfs.max_retries - 1) :
          StaleThenOk(nfs.script, k)
          => /\ nfs.phase = "returned"
             /\ nfs.result = OpOk
             /\ nfs.calls = k + 1
             /\ nfs.refreshes = k

\* k = 2, n = 3: success with exactly two refreshes
C18_Witness ==
    /\ nfs.phase = "returned"
    /\ nfs.has_path
    /\ nfs.max_retries = 3
    /\ StaleThenOk(nfs.script, 2)
    /\ nfs.calls = 3
    /\ nfs.refreshes = 2

\* C19: an error of the operation that is not a stale-handle error ends the
\* call at once: it propagates unchanged, with no refresh and no wait after
\* the invocation that raised it; when the operation raises it at its first
\* invocation the operation has been invoked exactly once and no refresh
\* and no wait happened at all.
C19_OtherErrorsPropagate ==
    \A j \in 1..MaxRetriesArg :
        (/\ nfs.phase # "idle"
         /\ nfs.calls >= j
         /\ nfs.script[j] \in OpErrors \ StaleErrors)
        => /\ nfs.phase = "raised"
           /\ nfs.result = nfs.script[j]
           /\ nfs.calls = j
           /\ nfs.refreshes <= j - 1
           /\ nfs.settles <= j - 1
           /\ Len(nfs.waits) = j - 1

\* The first invocation raised an error that is not a stale-handle error,
\* in a call that had a path and retries left
C19_Witness ==
    /\ nfs.phase = "raised"
    /\ nfs.has_path
    /\ nfs.max_retries >= 2
    /\ nfs.script[1] \in OpErrors \ StaleErrors
    /\ nfs.calls = 1
    /\ nfs.refreshes = 0
    /\ nfs.waits = <<>>

ConvertEnded == tc.phase \in {"done", "failed"}

\* C20: a transcode run makes at most two encoder attempts and a software
\* attempt is the last one; when the hardware attempt exits nonzero with a
\* driver-related stderr exactly one software attempt follows, and the run
\* succeeds only if that attempt exits 0 and fails if it exits nonzero.
C20_OneSoftwareFallback ==
    LET n == Len(tc.tries)
    IN /\ n <= 2
       /\ \A i \in 1..n : tc.tries[i].encoder = "cpu" => i = n
       /\ (/\ n >= 1
           /\ tc.tries[1].encoder = "gpu"
           /\ tc.tries[1].exit \in StderrTexts
           /\ driver_issue(tc.tries[1].exit))
          => /\ n = 2
             /\ tc.tries[2].encoder = "cpu"
             /\ (tc.phase = "done" \/ tc.path = ConvertedFile)
                   => tc.tries[2].exit = OpOk
             /\ tc.tries[2].exit \in StderrTexts
                   => /\ tc.phase \in {"failed", "returned"}
                      /\ tc.error = "Video conversion failed"
                      /\ tc.path # ConvertedFile

\* The hardware attempt failed on the driver and the software attempt that
\* followed succeeded
C20_Witness ==
    /\ tc.phase = "returned"
    /\ tc.path = ConvertedFile
    /\ Len(tc.tries) = 2
    /\ tc.tries[1].encoder = "gpu"
    /\ tc.tries[1].exit = ErrDriver
    /\ tc.tries[2].encoder = "cpu"
    /\ tc.tries[2].exit = OpOk

\* C21: a failure of the transcode engine never makes the pipeline raise:
\* from the state where _convert_video has failed the pipeline's next step
\* is to return the path of the original file; the pipeline only raises
\* from its conversion branch before the engine is invoked.
C21_TranscodeFailureNotFatal ==
    [][/\ tc.phase = "failed"
          => tc'.phase = "returned" /\ tc'.path = OriginalFile
       /\ tc'.phase = "raised" => tc.phase = "idle"]_vars

\* The hardware attempt and the software attempt both failed and the
\* pipeline has returned the original file
C21_Witness ==
    /\ tc.phase = "returned"
    /\ Len(tc.tries) = 2
    /\ tc.tries[2].exit \in StderrTexts
    /\ tc.error = "Video conversion failed"
    /\ tc.path = OriginalFile

\* The queue of subscriber sid, <<>> when it has unsubscribed
PendingOf(sid) ==
    IF \E k \in DOMAIN sse.subs : sse.subs[k].sid = sid
    THEN sse.subs[CHOOSE k \in DOMAIN sse.subs : sse.subs[k].sid = sid].q
    ELSE <<>>

Subscribed(sid) == \E k \in DOMAIN sse.subs : sse.subs[k].sid = sid

IsPrefix(a, b) == Len(a) <= Len(b) /\ SubSeq(b, 1, Len(a)) = a

\* What every subscriber got is the beginning of what it was sent, and the
\* rest waits in its queue
PerSubscriberOrder ==
    /\ \A sid \in DOMAIN sse.seen :
          /\ IsPrefix(sse.got[sid], sse.seen[sid])
          /\ Subscribed(sid) => sse.got[sid] \o PendingOf(sid) = sse.seen[sid]
          /\ \A a, b \in DOMAIN sse.got[sid] :
                a < b => sse.got[sid][a] < sse.got[sid][b]

\* C22: what a subscriber has received is, in order and without gap or
\* repetition, the beginning of what was emitted while it was subscribed;
\* while it is subscribed the rest is waiting in its queue in the same
\* order; once it has unsubscribed it receives nothing more.
C22_PerSubscriberDelivery ==
    /\ []PerSubscriberOrder
    /\ [][\A sid \in DOMAIN sse.seen :
             ~Subscribed(sid) => sse'.got[sid] = sse.got[sid]]_vars

\* A subscriber received two events in a row while a later subscriber
\* received only the second, and a third event was emitted after the first
\* subscriber left
C22_Witness ==
    /\ Len(sse.seen) >= 2
    /\ sse.got[1] = <<1, 2>>
    /\ sse.got[2] = <<2, 3>>
    /\ ~Subscribed(1)

\* C23: sanitization is idempotent: sanitizing a returned name gives the
\* same name.
C23_SanitizeIdempotent ==
    fn.op = "sanitize" => sanitize_filename(fn.out) = fn.out

\* C24: a sanitized name contains no invalid character, neither begins nor
\* ends with a space or a dot, and contains no two whitespace characters in
\* a row.
C24_SanitizedShape ==
    fn.op = "sanitize"
    => /\ \A i \in DOMAIN fn.out : fn.out[i] \notin InvalidChars
       /\ fn.out # <<>> => /\ fn.out[1] \notin {" ", "."}
                           /\ fn.out[Len(fn.out)] \notin {" ", "."}
       /\ \A i \in 1..(Len(fn.out) - 1) :
             ~(fn.out[i] \in Whitespace /\ fn.out[i + 1] \in Whitespace)

\* The numbers of the audio files of dir whose name begins with two or
\* three digits and a hyphen
NumberedTracks(dir) ==
    {int_of(f.digits) :
        f \in {g \in dir.files : /\ g.ext \in AudioExts
                                 /\ Len(g.digits) \in {2, 3}
                                 /\ g.sep \in {" - ", "-", " -", "- "}}}

C26_ArtistTitleSplit ==
    fn.op = "infer"
    => LET title == fn.arg.title
       IN /\ contains(title, DashSep)
             => LET parts == split_once(title, DashSep)
                IN /\ fn.out.artist = strip(parts[1], Whitespace)
                   /\ fn.out.title = strip(parts[2], Whitespace)
          /\ (~contains(title, DashSep) /\ count_of(title, ColonSep) # 1)
             => /\ fn.out.title = title
                /\ fn.arg.uploader # <<>> => fn.out.artist = fn.arg.uploader

\* The numbers of the entries in the relay, oldest first
InRelay == [k \in DOMAIN rl.relay |-> rl.relay[k].n]

Increasing(seq) == \A j, k \in DOMAIN seq : j < k => seq[j] < seq[k]

SeqRange(seq) == {seq[k] : k \in DOMAIN seq}

\* The deltas of item id that were written to it
AppliedTo(id) == {n \in SeqRange(rl.applied) : rl.log[n][1] = id}

\* Every delta pushed is in exactly one place (in the relay, applied once or
\* dropped for an item that is gone), the writes follow the order of the
\* pushes, and an item shows the newest delta written to it.
RelayInOrder ==
    /\ Increasing(rl.applied \o InRelay)
    /\ SeqRange(rl.applied) \cup rl.dropped \cup SeqRange(InRelay)
           = 1..Len(rl.log)
    /\ rl.dropped \cap (SeqRange(rl.applied) \cup SeqRange(InRelay)) = {}
    /\ \A n \in rl.dropped : rl.log[n][1] \notin rl.present
    /\ \A k \in DOMAIN rl.relay :
          <<rl.relay[k].item_id, rl.relay[k].data>> = rl.log[rl.relay[k].n]
    /\ \A id \in ItemIds :
          AppliedTo(id) # {}
          => rl.progress[id] = rl.log[SetMax(AppliedTo(id))][2].progress

\* C27: the deltas pushed for an item are applied to it in the order of the
\* pushes, each exactly once, none lost, duplicated or reordered, and while
\* the consumer runs every pushed delta is in the end applied, or dropped
\* because its item has left the queue.
C27_RelayDelivers ==
    /\ []RelayInOrder
    /\ \A n \in 1..MaxDeltas :
          (rl.running /\ Len(rl.log) >= n)
              ~> (n \in SeqRange(rl.applied) \cup rl.dropped)

\* Three deltas of one item were applied in the order of their pushes
C27_Witness ==
    /\ Len(rl.log) = 3
    /\ \A n \in 1..3 : rl.log[n][1] = 1
    /\ rl.log[1][2] # rl.log[2][2]
    /\ rl.applied = <<1, 2, 3>>
    /\ rl.progress[1] = rl.log[3][2].progress

\* A step of an event-loop task inside `async with self._lock`
LockedStep ==
    \/ \E request \in Requests : add_to_queue(request)
    \/ \E id \in ItemIds : remove_from_queue(id)
    \/ \E id \in ItemIds : cancel_download(id)
    \/ \E id \in ItemIds : retry_download(id)
    \/ clear_completed
    \/ worker_start
    \/ download_returned
    \/ download_raised
    \/ apply_progress_update

\* A step of code that runs on a worker-pool thread: the extraction, the
\* fetch, and the progress hook with the callback and the poll it calls
ThreadStep ==
    \/ extract_metadata
    \/ download_end
    \/ \E d \in HookEvents : progress_hook(d)

\* C28: the item map, the order list and the fields of the items change
\* only in steps of event-loop tasks that hold the queue mutex; a step on a
\* worker-pool thread leaves them and the flag set as they are and at most
\* appends one entry to the relay.
C28_QueueStateOnlyUnderLock ==
    [][/\ (queue' # queue \/ order' # order) => LockedStep
       /\ ThreadStep
          => /\ queue' = queue
             /\ order' = order
             /\ cancelled' = cancelled
             /\ \/ progress_queue' = progress_queue
                \/ \E d \in HookEvents :
                      progress_queue' = Append(progress_queue, <<cur, HookData(d)>>)]_vars

\* The callback has pushed a delta and the item is as it was
C28_Witness ==
    /\ pc = "fetch"
    /\ cur \in DOMAIN queue
    /\ progress_queue # <<>>
    /\ Head(progress_queue)[1] = cur
    /\ Head(progress_queue)[2].progress = 50
    /\ queue[cur].progress = 0
    /\ queue[cur].status = DOWNLOADING

\* C29: a progress hook invoked while the item's id is in the flag set
\* raises the cancellation failure and pushes no delta; the failure stays
\* the run's outcome, and the run ends with the item cancelled if the item
\* is still in the queue.
C29_FlaggedHookCancelsRun ==
    [][/\ (cur \in cancelled /\ \E d \in HookEvents : progress_hook(d))
          => /\ pc' = "raised"
             /\ exc' = MsgCancelled
             /\ progress_queue' = progress_queue
       /\ (pc = "raised" /\ exc = MsgCancelled)
          => \/ pc' = "raised" /\ exc' = MsgCancelled /\ cur' = cur
             \/ /\ pc' = "idle"
                /\ cur \in DOMAIN queue' => queue'[cur].status = CANCELLED]_vars

\* The hook found the flag of the running item and raised
C29_Witness ==
    /\ pc = "raised"
    /\ exc = MsgCancelled
    /\ cur \in cancelled
    /\ cur \in DOMAIN queue
    /\ progress_queue = <<>>

\* C30: no step of the pipeline starts while the id of its item is in the
\* flag set.
C30_NoStepStartsWhenFlagged ==
    [][(pc' # pc /\ pc' \in {"meta", "place", "fetch", "post"})
          => cur' \notin cancelled]_vars

\* C31: when the flag of the item is found during its transcode the
\* subprocess is terminated and the pipeline run ends with the cancellation
\* failure: it does not return a file path.
C31_TranscodeCancelRaises ==
    (/\ tc.error = "Conversion cancelled"
     /\ Len(tc.tries) >= 1
     /\ tc.tries[Len(tc.tries)].exit = "terminated")
    => (tc.phase # "returned" /\ tc.path = NULL)

\* C32: every delta pushed from the start of the transcode stage until the
\* engine has ended carries a progress inside 95..99.
C32_TranscodeDeltasInTail ==
    tc.phase \in {"converting", "encoding", "encoded", "done", "failed"}
    => \A k \in DOMAIN tc.pushed : tc.pushed[k] \in 95..99

\* C33: when the validation of the output directory fails after the
\* retries of the mount layer the pipeline raises the error that names the
\* directory, the run goes from there to its end without the fetch, and
\* the item, if it is still in the queue, ends failed with that message.
C33_UnreachableDirectoryFailsItem ==
    [][/\ (pc = "place" /\ pc' # "place")
          => \/ pc' = "fetch" /\ exc' = NULL
             \/ pc' = "raised" /\ exc' = MsgMount
       /\ (pc = "raised" /\ exc = MsgMount)
          => \/ pc' = "raised" /\ exc' = MsgMount /\ cur' = cur
                /\ progress_queue' = progress_queue
             \/ /\ pc' = "idle"
                /\ cur \in DOMAIN queue'
                   => /\ queue'[cur].status = FAILED
                      /\ queue'[cur].error = MsgMount]_vars

\* A run ended on the unreachable directory and its item is failed
C33_Witness ==
    /\ pc = "idle"
    /\ \E id \in DOMAIN queue :
          /\ queue[id].status = FAILED
          /\ queue[id].error = MsgMount
          /\ queue[id].progress = 0

\* C34: the backoff of _retry_nfs_operation is exponential: each wait is
\* at least twice the wait before it.
C34_BackoffDoubles ==
    \A k \in 1..(Len(nfs.waits) - 1) : nfs.waits[k + 1] >= 2 * nfs.waits[k]

\* The entry of mount m is there and younger than the TTL
FreshEntry(m) ==
    m \in DOMAIN mc.cache /\ mc.now - mc.cache[m].timestamp < mount_cache_ttl

\* C35: a lookup returns the stored availability only for an entry younger
\* than the TTL; an expired entry is deleted and reported as missing; the
\* status query serves from the cache only when both entries are fresh and
\* otherwise probes both mounts and writes fresh entries for both.
C35_CacheHonoursTtl ==
    [][/\ \A m \in Mounts :
            LET r == get_cached_mount_status(mc.cache, m, mc.now)
            IN IF FreshEntry(m)
               THEN /\ r.ret = IF mc.cache[m].status THEN "True" ELSE "False"
                    /\ r.cache = mc.cache
               ELSE /\ r.ret = "None"
                    /\ m \notin DOMAIN r.cache
       /\ mc'.queries # mc.queries
          => IF mc'.last.use_cache /\ \A m \in Mounts : FreshEntry(m)
             THEN /\ ~mc'.last.probed
                  /\ mc'.cache = mc.cache
                  /\ \A m \in Mounts : mc'.last.result[m] = mc.cache[m].status
             ELSE /\ mc'.last.probed
                  /\ \A m \in Mounts :
                        /\ m \in DOMAIN mc'.cache
                        /\ mc'.cache[m] = [status |-> mc'.last.result[m],
                                           timestamp |-> mc.now]]_vars

\* The query found the entry of the movies mount exactly as old as the TTL
\* and the entry of the music mount younger, and probed both
C35_Witness ==
    /\ mc.queries > 0
    /\ mc.last.use_cache
    /\ mc.last.ages["movies"] = mount_cache_ttl
    /\ mc.last.ages["music"] \in 0..(mount_cache_ttl - 1)
    /\ mc.last.probed
    /\ \A m \in Mounts : mc.cache[m].timestamp = mc.now

\* C36: at most one item is `downloading`, so the active_downloads count of
\* list() is 0 or 1.
C36_ActiveDownloadsAtMostOne ==
    /\ Cardinality({id \in DOMAIN queue : queue[id].status = DOWNLOADING}) <= 1
    /\ get_queue.active_downloads \in {0, 1}

\* One item is downloading while another one, run before it, is still
\* listed: list() counts one active download among two items
C36_Witness ==
    /\ Len(get_queue.items) = 2
    /\ get_queue.active_downloads = 1
    /\ pc = "fetch"
    /\ queue[cur].status = DOWNLOADING
    /\ \E id \in DOMAIN queue : id # cur /\ queue[id].status \in Terminal

\* C37: a `queued` item (after an accepted retry in particular) stays
\* `queued` until the worker starts a new run of it or a cancel of it is
\* accepted: a run that began before the retry, and the deltas it pushed,
\* do not change its status.
C37_RetriedItemStaysQueued ==
    [][\A id \in DOMAIN queue \cap DOMAIN queue' :
          (queue[id].status = QUEUED /\ queue'[id].status # QUEUED)
          => \/ /\ pc = "idle"
                /\ pc' = "meta"
                /\ cur' = id
                /\ queue'[id].status = DOWNLOADING
             \/ /\ last' = Call("cancel", id, TRUE, 0)
                /\ queue'[id].status = CANCELLED]_vars

\* C38: no item stays `downloading` or `processing` for ever after its run
\* has ended.  Once the worker is back in its loop and the relay is empty no
\* step of the worker or of the consumer writes to an item that is not
\* `queued`, so in such a state no item may be `downloading` or
\* `processing`.
C38_NoItemLeftActive ==
    (pc = "idle" /\ progress_queue = <<>>) => Active = {}

\* C39: an item whose cancel was accepted while it was `queued` is not
\* started unless a retry of it is accepted afterwards: the accepted cancel
\* makes it `cancelled` and flags it without touching the worker, only an
\* accepted retry makes an item `queued` (and takes its flag away), and the
\* worker moves to `downloading` only an item that is `queued` and not
\* flagged, in the same step in which it selected it.
C39_CancelledQueuedItemNotStarted ==
    [][\A id \in DOMAIN queue \cap DOMAIN queue' :
          /\ (last' = Call("cancel", id, TRUE, 0) /\ queue[id].status = QUEUED)
             => /\ queue'[id].status = CANCELLED
                /\ id \in cancelled'
                /\ pc' = pc
                /\ cur' = cur
          /\ (queue'[id].status = QUEUED /\ queue[id].status # QUEUED)
             => /\ last' = Call("retry", id, TRUE, 0)
                /\ id \notin cancelled'
          /\ (queue'[id].status = DOWNLOADING /\ queue[id].status # DOWNLOADING)
             => /\ queue[id].status = QUEUED
                /\ id \notin cancelled
                /\ pc = "idle"
                /\ pc' = "meta"
                /\ cur' = id
          /\ (pc = "idle" /\ pc' # "idle")
             => queue[cur'].status = QUEUED /\ cur' \notin cancelled]_vars

\* The cancel of a queued item was accepted with the worker in its loop: the
\* worker finds nothing to start, and runs the item behind it instead
C39_Witness ==
    /\ pc = "meta"
    /\ cur = 2
    /\ order = <<1, 2>>
    /\ queue[1].status = CANCELLED
    /\ 1 \in cancelled
    /\ queue[1].progress = 0
    /\ queue[1].error = NULL
    /\ ~runCancelled

\* The lock operation the call of task is about to make, "none" without one
NextLockOp(task) ==
    IF lk.op[task] # "none" /\ lk.ip[task] \in DOMAIN LockProgram(lk.op[task])
    THEN LockProgram(lk.op[task])[lk.ip[task]]
    ELSE "none"

\* The holder of _lock does not ask for it again, no holder of _thread_lock
\* asks for _lock or gives up the event loop, and the polling thread never
\* asks for _lock.
LockDiscipline ==
    /\ \A task \in LockTasks :
          /\ lk.m = task => NextLockOp(task) # "acq_m"
          /\ lk.t = task => NextLockOp(task) # "acq_m"
          /\ (lk.t = task /\ task \in LoopTasks) => lk.current = task
    /\ NextLockOp(PollThread) # "acq_m"
    /\ lk.m # PollThread

\* C40: the queue manager is deadlock-free: the lock discipline holds in
\* every state and every call that has begun returns.
C40_DeadlockFree ==
    /\ []LockDiscipline
    /\ \A task \in LockTasks : (lk.op[task] # "none") ~> (lk.op[task] = "none")

\* clear_completed has left _lock and holds it again for the full update
\* while the polling thread holds _thread_lock
C40_Witness ==
    /\ lk.op[1] = "clear"
    /\ lk.ip[1] = 4
    /\ lk.m = 1
    /\ lk.op[PollThread] = "poll"
    /\ lk.t = PollThread

====
